---- MODULE Spec2Model ----
(***************************************************************************)
(* A model of the loop-nest lowering and thread-synchronisation core of    *)
(* the tensor compiler: the thread-sync planner and inserter               *)
(* (storage_sync_improved.cc), the Z3 prover bridge (z3_analyzer.cc), the  *)
(* loop-nest builder (op_util.cc), the tensor-layout rewriter and the      *)
(* freeze of tensor dimensions (change_tensor_layout.cc).  Each component  *)
(* has its own specification.                                              *)
(***************************************************************************)
EXTENDS Integers, Sequences, FiniteSets, TLC

VARIABLES
    \* ---- thread-sync planner / inserter ----
    seq,               \* the statement sequence handed to Summarize
    loop,              \* for_type of the enclosing loop, or "none" (loop == nullptr)
    degraded,          \* TRUE when the prover answers false to every query
    condition_counter, \* StorageAccessVisitor::condition_counter()
    syncs_inserted_,   \* ThreadSyncPlanner::syncs_inserted_
    summary,           \* the access list Summarize returned
    body_out,          \* the statement list the inserter produced
    spc,               \* position of the ThreadSync driver
    inserter,          \* a ThreadSyncInserter walking a statement with
                       \* thread_extent regions: its fields, the statement,
                       \* the output so far and the position of the walk
    \* ---- Z3 prover bridge ----
    var_constraints,     \* Z3Analyzer::var_constraints: variable -> its range facts
    general_constraints, \* Z3Analyzer::general_constraints
    zcall,               \* the last call made on the analyzer and how it ended
    zpre,                \* the assumption sets as they were before that call
    zops,                \* number of calls made
    \* ---- tensor-layout rewriter ----
    op_kind,           \* kind of tensor->op
    leaf_dimensions,   \* s->dim_relation_graph->leaf_dimensions
    relations,         \* s->dim_relation_graph->relations
    next_dim,          \* identity of the next DimensionNode::make object
    lcall,             \* the last layout call and the stage as it was before it
    lops,              \* number of layout calls made
    \* ---- loop-nest builder ----
    leaf_iter_vars,    \* stage->leaf_iter_vars, each with its range and attributes
    all_dimensions,    \* the DimInfo array handed to MakeComputeOpLoopNest
    begin_iter_pos,
    new_loop_var,
    skip_iter,
    debug_keep_trivial_loop,
    value_map,         \* *p_value_map
    value_map_in,      \* the value map as the caller supplied it
    index_vars_loop_vars_depend_on,
    root_vars_loop_vars_depend_on,
    index_vars_loop_vars_are_needed_for,
    index_vars_dep_count,
    nest,              \* the levels of emitted statements
    first_run,         \* value map and nest of an earlier run on the same stage
    state_order,       \* per derived dimension, the order in which the
                       \* unordered_map state of IndexLoopVarDeps yields its keys
    npc,               \* position inside MakeComputeOpLoopNest
    hoisting,          \* a call of MergeWhileHoisting: the stage's leaf
                       \* variables, defs, preds and what it returned
    \* ---- freeze_tensor_dimensions ----
    sch,                    \* the schedule: operations, stages, op2stage cache
    scan_updates_and_inits, \* operations of the updates and inits of changed scans
    conditional_cases,      \* operations of the cases of changed conditionals
    todo,                   \* the stages still to process, in processing order
    fpc                     \* position inside IndexByDenseLayoutChange

syncVars == <<seq, loop, degraded, condition_counter, syncs_inserted_, summary,
              body_out, spc, inserter>>

z3Vars == <<var_constraints, general_constraints, zcall, zpre, zops>>

layoutVars == <<op_kind, leaf_dimensions, relations, next_dim, lcall, lops>>

nestVars == <<leaf_iter_vars, all_dimensions, begin_iter_pos, new_loop_var, skip_iter,
              debug_keep_trivial_loop, value_map, value_map_in,
              index_vars_loop_vars_depend_on, root_vars_loop_vars_depend_on,
              index_vars_loop_vars_are_needed_for, index_vars_dep_count, nest,
              first_run, state_order, npc, hoisting>>

freezeVars == <<sch, scan_updates_and_inits, conditional_cases, todo, fpc>>

vars == <<syncVars, z3Vars, layoutVars, nestVars, freezeVars>>

(***************************************************************************)
(* Bounds of the model.                                                    *)
(***************************************************************************)
MaxStmts == 2
ThreadExtent == 2
MaxZ3Calls == 3
MaxLayoutCalls == 3

(***************************************************************************)
(* Symbolic index expressions: c * loop_var + t * threadIdx + k.           *)
(***************************************************************************)
E(c, t, k) == [c |-> c, t |-> t, k |-> k]

\* VarReplacer with vsub[loop_var] = loop_var + 1
VarReplacer(e) == [e EXCEPT !.k = e.k + e.c]

\* arith::IntSet: an interval [min, max]; single is min.same_as(max)
Point(e) == [min |-> e, max |-> e, single |-> TRUE]
Interval(lo, hi) == [min |-> lo, max |-> hi, single |-> FALSE]
NoTouch == Point(E(0, 0, 0))

\* an equality test that never succeeds
NeverEqual(a, b) == FALSE

\* Equal(analyzer.Simplify(a), analyzer.Simplify(b)): structural equality of
\* the canonical forms
EqualSimplified(a, b) == a = b

\* The comparison queries FindConflict hands to the prover
Lt(a, b) == [op |-> "lt", a |-> a, b |-> b]
Gt(a, b) == [op |-> "gt", a |-> a, b |-> b]

\* A query is valid when it holds for every value of the loop variable (which
\* FindConflict never binds) and every thread index in [0, ThreadExtent)
\* (bound by analyzer.Bind(iv->var, r))
Valid(q) ==
    /\ q.a.c = q.b.c
    /\ \A tx \in 0..(ThreadExtent - 1) :
          LET d == (q.b.t - q.a.t) * tx + (q.b.k - q.a.k)
          IN  IF q.op = "lt" THEN d > 0 ELSE d < 0

\* arith::Analyzer::CanProve as the planner sees it: sound, and answering false
\* to everything when it degrades (time-out, unconvertible expression)
AnalyzerCanProve(q) == (~degraded) /\ Valid(q)

(***************************************************************************)
(* AccessEntry and StmtEntry.                                              *)
(***************************************************************************)
Acc(ty, buf, touched, dbw) ==
    [type |-> ty, buffer |-> buf, touched |-> touched, double_buffer_write |-> dbw]

Rd(buf, touched) == Acc("kRead", buf, touched, FALSE)
Wr(buf, touched) == Acc("kWrite", buf, touched, FALSE)
DbWr(buf, touched) == Acc("kWrite", buf, touched, TRUE)
SyncAcc == Acc("kSync", "none", NoTouch, FALSE)

LoopVarPoint == Point(E(1, 0, 0))            \* buf[i]
LoopVarNext == Point(E(1, 0, 1))             \* buf[i + 1]
ThreadPoint == Point(E(0, 1, 0))             \* buf[threadIdx]
ConstHigh == Point(E(0, 0, 2))               \* buf[2]
ConstRange == Interval(E(0, 0, 0), E(0, 0, 1))   \* buf[0 .. 1]
LoopRange == Interval(E(1, 0, 0), E(1, 0, 1))    \* buf[i .. i + 1]

\* The access lists a statement of the input may carry
StmtAccessPool ==
    { <<Wr("A", LoopVarPoint)>>, <<Rd("A", LoopVarPoint)>>,
      <<Wr("A", LoopVarNext)>>, <<Rd("A", LoopVarNext)>>,
      <<Wr("A", ConstRange)>>, <<Rd("A", ConstRange)>>,
      <<Rd("A", LoopRange)>>,
      <<DbWr("A", LoopVarPoint)>>,
      <<Wr("A", ThreadPoint)>>, <<Rd("A", ConstHigh)>>,
      <<Rd("B", LoopVarPoint)>>, <<Wr("B", ConstRange)>>,
      <<SyncAcc>>,
      <<Rd("A", LoopVarPoint), Wr("A", LoopVarPoint)>>,
      <<Wr("A", ConstRange), SyncAcc, Rd("A", LoopVarNext)>> }

\* The access lists of the statements of a longer input
LongStmtAccessPool ==
    { <<Wr("A", ConstRange)>>, <<Rd("A", ConstRange)>>,
      <<Rd("A", LoopVarPoint)>>, <<Wr("A", LoopVarNext)>>,
      <<SyncAcc>>,
      <<Wr("A", ConstRange), SyncAcc, Rd("A", LoopVarNext)>> }

StmtSeqs ==
    UNION { [1..n -> StmtAccessPool] : n \in 1..MaxStmts }
        \cup [1..(MaxStmts + 1) -> LongStmtAccessPool]

\* StmtEntry i of the sequence: the statement object is identified by its position
StmtEntry(s, i) == [stmt |-> i, access |-> s[i]]

(***************************************************************************)
(* ThreadSyncPlanner::FindConflict                                         *)
(***************************************************************************)
\* the interval test of lines 233-239
ProvedApart(x, e) ==
    \/ AnalyzerCanProve(Lt(x.touched.max, e.touched.min))
    \/ AnalyzerCanProve(Gt(e.touched.max, x.touched.min))

\* a conflict test that compares the lower ends without asking whether both
\* touched sets are single points
ConflictsWithAnyEqualMin(x, e, loop_carry) ==
    /\ x.buffer = e.buffer
    /\ ~EqualSimplified(e.touched.min, x.touched.min)
    /\ ~ProvedApart(x, e)
    /\ ~(x.double_buffer_write /\ e.type = "kRead" /\ ~loop_carry)

ConflictsWith(x, e, loop_carry) ==
    /\ x.buffer = e.buffer
    /\ ~(/\ e.touched.single
         /\ x.touched.single
         /\ EqualSimplified(e.touched.min, x.touched.min))
    /\ ~ProvedApart(x, e)
    /\ ~(x.double_buffer_write /\ e.type = "kRead" /\ ~loop_carry)

FindConflict(vec, e, loop_carry) ==
    \E n \in 1..Len(vec) : ConflictsWith(vec[n], e, loop_carry)

(***************************************************************************)
(* ThreadSyncPlanner::Summarize                                            *)
(***************************************************************************)
RECURSIVE CheckAccesses(_, _, _, _, _)
\* The conflict test over the accesses of one statement (lines 68-80 and
\* 143-153): stops at the first conflict, an explicit sync clears both sets
CheckAccesses(acc, j, reads, writes, loop_carry) ==
    IF j > Len(acc)
    THEN [conflict |-> FALSE, reads |-> reads, writes |-> writes]
    ELSE LET a == acc[j]
         IN  IF a.type = "kRead"
             THEN IF FindConflict(writes, a, loop_carry)
                  THEN [conflict |-> TRUE, reads |-> reads, writes |-> writes]
                  ELSE CheckAccesses(acc, j + 1, reads, writes, loop_carry)
             ELSE IF a.type = "kWrite"
             THEN IF FindConflict(reads, a, loop_carry)
                  THEN [conflict |-> TRUE, reads |-> reads, writes |-> writes]
                  ELSE CheckAccesses(acc, j + 1, reads, writes, loop_carry)
             ELSE CheckAccesses(acc, j + 1, <<>>, <<>>, loop_carry)

RECURSIVE AddAccesses(_, _, _, _)
\* Add the read/write of the current statement (lines 86-94)
AddAccesses(acc, j, reads, writes) ==
    IF j > Len(acc)
    THEN [reads |-> reads, writes |-> writes]
    ELSE LET a == acc[j]
         IN  IF a.type = "kRead"
             THEN AddAccesses(acc, j + 1, Append(reads, a), writes)
             ELSE IF a.type = "kWrite"
             THEN AddAccesses(acc, j + 1, reads, Append(writes, a))
             ELSE AddAccesses(acc, j + 1, <<>>, <<>>)

\* a forward step that keeps the unsynced accesses across a sync point
ForwardStepKeepAll(s, i, st) ==
    LET e == StmtEntry(s, i)
        chk == CheckAccesses(e.access, 1, st.reads, st.writes, FALSE)
        sync_before_stmt == e.stmt \in st.syncs \/ chk.conflict
        added == AddAccesses(e.access, 1, chk.reads, chk.writes)
    IN  [reads |-> added.reads,
         writes |-> added.writes,
         syncs |-> IF sync_before_stmt /\ condition_counter = 0
                   THEN st.syncs \cup {e.stmt} ELSE st.syncs,
         fatal |-> sync_before_stmt /\ condition_counter # 0]

\* a forward step that marks the statement whatever the condition counter
ForwardStepMarksInCondition(s, i, st) ==
    LET e == StmtEntry(s, i)
        marked == e.stmt \in st.syncs
        r0 == IF marked THEN <<>> ELSE st.reads
        w0 == IF marked THEN <<>> ELSE st.writes
        chk == CheckAccesses(e.access, 1, r0, w0, FALSE)
        sync_before_stmt == marked \/ chk.conflict
        r1 == IF sync_before_stmt THEN <<>> ELSE chk.reads
        w1 == IF sync_before_stmt THEN <<>> ELSE chk.writes
        added == AddAccesses(e.access, 1, r1, w1)
    IN  [reads |-> added.reads,
         writes |-> added.writes,
         syncs |-> IF sync_before_stmt THEN st.syncs \cup {e.stmt} ELSE st.syncs,
         fatal |-> sync_before_stmt /\ condition_counter # 0]

\* One iteration of the forward scan (lines 58-99) on statement i
ForwardStep(s, i, st) ==
    LET e == StmtEntry(s, i)
        marked == e.stmt \in st.syncs
        r0 == IF marked THEN <<>> ELSE st.reads
        w0 == IF marked THEN <<>> ELSE st.writes
        chk == CheckAccesses(e.access, 1, r0, w0, FALSE)
        sync_before_stmt == marked \/ chk.conflict
        r1 == IF sync_before_stmt THEN <<>> ELSE chk.reads
        w1 == IF sync_before_stmt THEN <<>> ELSE chk.writes
        added == AddAccesses(e.access, 1, r1, w1)
    IN  [reads |-> added.reads,
         writes |-> added.writes,
         syncs |-> IF sync_before_stmt /\ condition_counter = 0
                   THEN st.syncs \cup {e.stmt} ELSE st.syncs,
         fatal |-> sync_before_stmt /\ condition_counter # 0]

RECURSIVE ForwardScan(_, _, _)
\* The forward scan over statements i .. Len(s) (lines 57-100); a failed
\* CHECK_EQ(condition_counter(), 0) ends the analysis
ForwardScan(s, i, st) ==
    IF i > Len(s) \/ st.fatal
    THEN st
    ELSE ForwardScan(s, i + 1, ForwardStep(s, i, st))

\* an access handed on as it is, whatever the loop type
Unshifted(acc, for_type) == acc

\* updatedForSequentialLoop (lines 109-141)
UpdatedForSequentialLoop(acc, for_type) ==
    IF for_type = "Serial"
    THEN [acc EXCEPT !.touched =
             IF acc.touched.single
             THEN Point(VarReplacer(acc.touched.min))
             ELSE Interval(VarReplacer(acc.touched.min), VarReplacer(acc.touched.max))]
    ELSE acc

ShiftAll(acc, for_type) ==
    [j \in 1..Len(acc) |-> UpdatedForSequentialLoop(acc[j], for_type)]

RECURSIVE LoopScan(_, _, _, _)
\* The simulated next iteration (lines 102-161)
LoopScan(s, i, st, for_type) ==
    IF i > Len(s)
    THEN st
    ELSE LET e == StmtEntry(s, i)
         IN  IF e.stmt \in st.syncs
             THEN st
             ELSE IF st.reads = <<>> /\ st.writes = <<>>
             THEN st
             ELSE LET chk == CheckAccesses(ShiftAll(e.access, for_type), 1,
                                           st.reads, st.writes, TRUE)
                  IN  IF chk.conflict
                      THEN IF condition_counter # 0
                           THEN [st EXCEPT !.fatal = TRUE]
                           ELSE [st EXCEPT !.syncs = st.syncs \cup {e.stmt}]
                      ELSE LoopScan(s, i + 1,
                                    [st EXCEPT !.reads = chk.reads,
                                               !.writes = chk.writes],
                                    for_type)

\* Both passes: the sync points planned for the sequence
PlanSyncs(s, for_type, syncs0) ==
    LET st1 == ForwardScan(s, 1, [reads |-> <<>>, writes |-> <<>>,
                                  syncs |-> syncs0, fatal |-> FALSE])
    IN  IF st1.fatal \/ for_type = "none"
        THEN st1
        ELSE LoopScan(s, 1, st1, for_type)

\* esync (lines 167-170)
ESync == SyncAcc

\* a compression that records every sync it sees
CountSyncKeepAll(c) ==
    [c EXCEPT !.head = Append(c.head, ESync), !.sync_count = c.sync_count + 1]

\* One sync seen while compressing (lines 174-179 and 183-188)
CountSync(c) ==
    IF c.sync_count # 0
    THEN [c EXCEPT !.tail = <<>>, !.sync_count = c.sync_count + 1]
    ELSE [c EXCEPT !.head = Append(c.head, ESync), !.sync_count = c.sync_count + 1]

RECURSIVE CompressAccesses(_, _, _)
\* lines 181-196
CompressAccesses(acc, j, c) ==
    IF j > Len(acc)
    THEN c
    ELSE LET a == acc[j]
         IN  IF a.type = "kSync"
             THEN CompressAccesses(acc, j + 1, CountSync(c))
             ELSE IF c.sync_count # 0
             THEN CompressAccesses(acc, j + 1, [c EXCEPT !.tail = Append(c.tail, a)])
             ELSE CompressAccesses(acc, j + 1, [c EXCEPT !.head = Append(c.head, a)])

RECURSIVE CompressStmts(_, _, _, _)
\* lines 172-197
CompressStmts(s, i, syncs, c) ==
    IF i > Len(s)
    THEN c
    ELSE LET e == StmtEntry(s, i)
             c1 == IF e.stmt \in syncs THEN CountSync(c) ELSE c
         IN  CompressStmts(s, i + 1, syncs, CompressAccesses(e.access, 1, c1))

\* the exposed entries with their flags as they are
ExposedKeepFlags(s, for_type, syncs) ==
    LET c == CompressStmts(s, 1, syncs, [sync_count |-> 0, head |-> <<>>, tail |-> <<>>])
    IN  c.head \o c.tail

\* The exposed entries (lines 163-205)
Exposed(s, for_type, syncs) ==
    LET c == CompressStmts(s, 1, syncs, [sync_count |-> 0, head |-> <<>>, tail |-> <<>>])
        head == c.head \o c.tail
    IN  IF for_type # "none"
        THEN [n \in 1..Len(head) |-> [head[n] EXCEPT !.double_buffer_write = FALSE]]
        ELSE head

\* Summarize(seq, loop): the new sync set, the returned list, and whether a
\* CHECK failed
Summarize(s, for_type, syncs0) ==
    LET st == PlanSyncs(s, for_type, syncs0)
    IN  [syncs |-> st.syncs,
         fatal |-> st.fatal,
         head |-> IF st.fatal THEN <<>> ELSE Exposed(s, for_type, st.syncs)]

(***************************************************************************)
(* ThreadSyncInserter::VisitStmt over the statements of the body           *)
(***************************************************************************)
Barrier == [kind |-> "barrier", stmt |-> 0]
Original(i) == [kind |-> "stmt", stmt |-> i]

\* a rewrite that puts the barrier after the marked statement
VisitStmtBarrierAfter(i, syncs) ==
    IF i \in syncs THEN <<Original(i), Barrier>> ELSE <<Original(i)>>

\* lines 267-285 for one statement
VisitStmt(i, syncs) ==
    IF Cardinality(syncs) = 0
    THEN <<Original(i)>>
    ELSE IF i \in syncs
    THEN <<Barrier, Original(i)>>
    ELSE <<Original(i)>>

RECURSIVE InsertSyncs(_, _, _)
\* The mutator's walk over the statement sequence, flattening the SeqStmt
InsertSyncs(n, i, syncs) ==
    IF i > n THEN <<>> ELSE VisitStmt(i, syncs) \o InsertSyncs(n, i + 1, syncs)

(***************************************************************************)
(* ThreadSyncInserter on a statement with thread_extent regions.  The      *)
(* statement is written as the list of what the mutator meets on its walk: *)
(* a thread_extent AttrStmt, the end of its body, or a statement that      *)
(* reads or writes a global buffer and may be a sync point.                *)
(***************************************************************************)
\* a PrimExpr for which defined() is false
Undefined == <<>>

\* the IterVar of a thread_extent AttrStmt: rank of its ThreadScope, its
\* variable and the extent the attribute carries
ThreadAxis(rank, var, value) == [rank |-> rank, var |-> var, value |-> value]
BlockAxisX == ThreadAxis(0, "bx", "gx")
ThreadAxisX == ThreadAxis(1, "tx", "nx")

ThreadExtentAttr(node) == [kind |-> "thread_extent", node |-> node]
EndOfBody == [kind |-> "end"]
\* a Store (access = "write") or an Evaluate of a Load (access = "read") on
\* a global buffer; marked when it is in syncs_
Leaf(marked, access) == [kind |-> "stmt", marked |-> marked, access |-> access]

Prepare == [kind |-> "tvm_prepare_global_barrier"]
Kinit == [kind |-> "tvm_global_barrier_kinit"]
VolatileScope == [kind |-> "volatile_scope"]
EndOfVolatile == [kind |-> "end_volatile"]
StorageSync(args) == [kind |-> "tvm_storage_sync", args |-> args]

\* the inserter before its walk over stmt
NewInserter(sync_scope, stmt) ==
    [sync_scope_ |-> sync_scope,
     syncs_ |-> {n \in 1..Len(stmt) : stmt[n].kind = "stmt" /\ stmt[n].marked},
     rw_stats_ |-> [read_count |-> 0, write_count |-> 0],
     in_thread_env_ |-> FALSE,
     thread_extents_ |-> <<>>,
     num_work_dim_ |-> 0,
     num_blocks_ |-> Undefined,
     is_lead_ |-> Undefined,
     \* the locals temp of the VisitStmt_ calls under way, innermost last
     temp |-> <<>>,
     \* where in out the AttrStmt of each of these calls stands
     open |-> <<>>,
     stmt |-> stmt,
     pos |-> 1,
     out |-> <<>>,
     \* the line of the CHECK that failed, 0 when none did
     failed |-> 0]

RECURSIVE WorkDims(_, _, _, _)
\* lines 399-409: the loop over thread_extents_
WorkDims(attrs, n, num_blocks, is_lead) ==
    IF n > Len(attrs) THEN [num_blocks_ |-> num_blocks, is_lead_ |-> is_lead]
    ELSE LET iv == attrs[n]
         IN  IF iv.rank = 0
             THEN WorkDims(attrs, n + 1, <<iv.value>> \o num_blocks, is_lead)
             ELSE IF iv.rank = 1
             THEN WorkDims(attrs, n + 1, num_blocks, Append(is_lead, iv.var))
             ELSE WorkDims(attrs, n + 1, num_blocks, is_lead)

\* a barrier that works its arguments out afresh each time
MakeGlobalBarrierNoMemo(st) ==
    LET w == WorkDims(st.thread_extents_, 1, Undefined, Undefined)
        st1 == [st EXCEPT !.num_work_dim_ = Len(st.thread_extents_),
                          !.num_blocks_ = w.num_blocks_,
                          !.is_lead_ = w.is_lead_]
    IN  [st1 EXCEPT !.out = Append(@, StorageSync(<<st.sync_scope_, st1.is_lead_,
                                                     st1.num_blocks_>>))]

\* MakeGlobalBarrier (lines 394-418): the barrier is appended to out
MakeGlobalBarrier(st) ==
    LET w == WorkDims(st.thread_extents_, 1, st.num_blocks_, st.is_lead_)
        st1 == IF st.num_blocks_ = Undefined
               THEN IF st.is_lead_ # Undefined
                    THEN [st EXCEPT !.failed = 397]
                    ELSE [st EXCEPT !.num_work_dim_ = Len(st.thread_extents_),
                                    !.num_blocks_ = w.num_blocks_,
                                    !.is_lead_ = w.is_lead_]
               ELSE IF st.num_work_dim_ # Len(st.thread_extents_)
                    THEN [st EXCEPT !.failed = 411]
                    ELSE st
    IN  IF st1.failed # 0 THEN st1
        ELSE [st1 EXCEPT !.out = Append(@, StorageSync(<<st.sync_scope_, st1.is_lead_,
                                                         st1.num_blocks_>>))]

\* lines 268-280 of VisitStmt: the barrier before a statement of syncs_
BarrierBefore(st) ==
    IF st.pos \notin st.syncs_ THEN st
    ELSE IF st.sync_scope_ = "global" THEN MakeGlobalBarrier(st)
    ELSE [st EXCEPT !.out = Append(@, StorageSync(<<st.sync_scope_>>))]

\* lines 286-299: a Load or a Store of a global buffer is counted when the
\* sync scope is global
CountAccess(st, access) ==
    IF st.sync_scope_ # "global" THEN st
    ELSE IF access = "read"
    THEN [st EXCEPT !.rw_stats_.read_count = @ + 1]
    ELSE [st EXCEPT !.rw_stats_.write_count = @ + 1]

\* InitGlobalBarrier (lines 374-393) on the AttrStmt that stands at out[o],
\* its body being the rest of out
InitGlobalBarrier(st, o) ==
    LET body == SubSeq(st.out, o + 1, Len(st.out))
        e == st.rw_stats_
        wrapped == IF e.read_count # 0 /\ e.write_count # 0
                   THEN <<VolatileScope>> \o body \o <<EndOfVolatile>>
                   ELSE body
    IN  [st EXCEPT !.rw_stats_ = [read_count |-> 0, write_count |-> 0],
                   !.out = SubSeq(st.out, 1, o - 1) \o <<Prepare, st.out[o], Kinit>>
                              \o wrapped]

\* a thread_extent that is wrapped whether or not another one encloses it
AfterThreadExtentAlwaysInit(st) ==
    LET o == st.open[Len(st.open)]
        st1 == [st EXCEPT !.thread_extents_ = SubSeq(@, 1, Len(@) - 1),
                          !.in_thread_env_ = st.temp[Len(st.temp)],
                          !.temp = SubSeq(@, 1, Len(@) - 1),
                          !.open = SubSeq(@, 1, Len(@) - 1),
                          !.pos = @ + 1]
        st2 == IF st1.sync_scope_ = "global"
               THEN [InitGlobalBarrier(st1, o) EXCEPT !.num_blocks_ = Undefined,
                                                      !.is_lead_ = Undefined]
               ELSE st1
    IN  [st2 EXCEPT !.out = Append(@, EndOfBody)]

\* lines 311-324 of VisitStmt_(AttrStmtNode): what follows the visit of the
\* body of a thread_extent
AfterThreadExtent(st) ==
    LET o == st.open[Len(st.open)]
        st1 == [st EXCEPT !.thread_extents_ = SubSeq(@, 1, Len(@) - 1),
                          !.in_thread_env_ = st.temp[Len(st.temp)],
                          !.temp = SubSeq(@, 1, Len(@) - 1),
                          !.open = SubSeq(@, 1, Len(@) - 1),
                          !.pos = @ + 1]
        st2 == IF ~st1.in_thread_env_ /\ st1.sync_scope_ = "global"
               THEN [InitGlobalBarrier(st1, o) EXCEPT !.num_blocks_ = Undefined,
                                                      !.is_lead_ = Undefined]
               ELSE st1
    IN  [st2 EXCEPT !.out = Append(@, EndOfBody)]

(***************************************************************************)
(* Z3Converter / Z3Analyzer                                                *)
(***************************************************************************)
Z3VarNames == {"x", "y"}

\* PrimExpr nodes
IntImm(n) == [kind |-> "IntImm", value |-> n]
VarNode(v) == [kind |-> "Var", name |-> v]
AddNode(a, b) == [kind |-> "Add", a |-> a, b |-> b]
LTNode(a, b) == [kind |-> "LT", a |-> a, b |-> b]
GENode(a, b) == [kind |-> "GE", a |-> a, b |-> b]
ImpureCall(dt) == [kind |-> "Call", pure |-> FALSE, dtype |-> dt]
SelectNode == [kind |-> "Select"]
\* z3 terms that have no PrimExpr form
BoolVal(b) == [kind |-> "BoolVal", value |-> b]
Forall(vs, body) == [kind |-> "Forall", vars |-> vs, body |-> body]

\* PrimExpr::dtype().is_bool()
IsBool(e) == e.kind \in {"LT", "GE"} \/ (e.kind = "Call" /\ e.dtype = "bool")

RECURSIVE Converts(_)
\* Z3Converter: an impure call (line 115) and a node without a visitor
\* (VisitExprDefault_, line 167) throw std::invalid_argument
Converts(e) ==
    IF e.kind \in {"IntImm", "Var"} THEN TRUE
    ELSE IF e.kind \in {"Add", "LT", "GE"} THEN Converts(e.a) /\ Converts(e.b)
    ELSE FALSE

\* values the integer variables range over when satisfiability is decided:
\* wide enough for every constant the inputs mention
Z3Dom == (0 - 1)..4

RECURSIVE Z3Eval(_, _)
\* the meaning of a converted term under an assignment of the variables
Z3Eval(e, env) ==
    IF e.kind = "IntImm" THEN e.value
    ELSE IF e.kind = "Var" THEN env[e.name]
    ELSE IF e.kind = "Add" THEN Z3Eval(e.a, env) + Z3Eval(e.b, env)
    ELSE IF e.kind = "LT" THEN Z3Eval(e.a, env) < Z3Eval(e.b, env)
    ELSE IF e.kind = "GE" THEN Z3Eval(e.a, env) >= Z3Eval(e.b, env)
    ELSE IF e.kind = "BoolVal" THEN e.value
    ELSE \A asg \in [e.vars -> Z3Dom] :
             Z3Eval(e.body, [v \in Z3VarNames |->
                                IF v \in e.vars THEN asg[v] ELSE env[v]])

\* antecedent of CanProve (lines 233-245): every range fact and every general fact
Antecedent(vc, gc, env) ==
    /\ \A v \in Z3VarNames : \A n \in 1..Len(vc[v]) : Z3Eval(vc[v][n], env)
    /\ \A n \in 1..Len(gc) : Z3Eval(gc[n], env)

\* !(antecedent => consequent) has no model
Unsat(vc, gc, cond) ==
    \A env \in [Z3VarNames -> Z3Dom] :
        Antecedent(vc, gc, env) => Z3Eval(cond, env)

\* an Update that always starts from an empty fact list
UpdateFactsAlwaysOverwrite(vc, v, min, max, overwrite) ==
    IF ~(Converts(min) /\ Converts(max))
    THEN vc
    ELSE [vc EXCEPT ![v] = <<GENode(VarNode(v), min), LTNode(VarNode(v), max)>>]

\* Z3Analyzer::Update(var, min, max, overwrite) (lines 187-205): the new
\* var_constraints
UpdateFacts(vc, v, min, max, overwrite) ==
    IF ~(Converts(min) /\ Converts(max))
    THEN vc
    ELSE LET base == IF vc[v] = <<>> \/ overwrite THEN <<>> ELSE vc[v]
         IN  [vc EXCEPT ![v] = base \o <<GENode(VarNode(v), min), LTNode(VarNode(v), max)>>]

\* what a call throws: the converter throws std::invalid_argument, the
\* decision procedure z3::exception
NoThrow == "none"
ConvertThrows(e) == IF Converts(e) THEN NoThrow ELSE "std::invalid_argument"

\* whether an exception thrown inside a call leaves it
Escapes(thrown, caught) == thrown # NoThrow /\ thrown \notin caught

\* the catch clauses of Update (lines 200-204)
UpdateCatches == {"std::invalid_argument", "z3::exception"}
\* AddConstraint and AddForallConstraint have no try block (lines 207-229)
AddConstraintCatches == {}
AddForallConstraintCatches == {}
\* the catch clauses of CanProve (lines 262-266)
CanProveCatches == {"std::invalid_argument", "z3::exception"}

\* what the body of CanProve's try block throws (lines 248-257)
CanProveThrows(cond, solver) ==
    IF ~Converts(cond) THEN "std::invalid_argument"
    ELSE IF solver = "throw" THEN "z3::exception"
    ELSE NoThrow

\* a CanProve that answers true unless the solver reports sat
CanProveUnlessSat(vc, gc, cond, solver) ==
    IF CanProveThrows(cond, solver) # NoThrow THEN FALSE
    ELSE IF solver = "unknown" THEN TRUE
    ELSE Unsat(vc, gc, cond)

\* Z3Analyzer::CanProve (lines 231-267): true only for solver.check() == unsat;
\* a caught exception gives false
CanProveResult(vc, gc, cond, solver) ==
    IF CanProveThrows(cond, solver) # NoThrow THEN FALSE
    ELSE IF solver = "unknown" THEN FALSE
    ELSE Unsat(vc, gc, cond)

\* inputs
RangeMins == {IntImm(0), IntImm(1), SelectNode}
RangeExtents == {IntImm(1), IntImm(2)}
Constraints == {IntImm(0), IntImm(1), LTNode(VarNode("x"), IntImm(1)),
                ImpureCall("bool"), AddNode(VarNode("x"), IntImm(1))}
ForallBodies == {GENode(VarNode("y"), IntImm(1)), ImpureCall("bool")}
Conds == {LTNode(VarNode("x"), IntImm(2)), GENode(VarNode("y"), IntImm(1)),
          ImpureCall("bool")}
SolverAnswers == {"decides", "unknown", "throw"}

Z3Before ==
    /\ zops < MaxZ3Calls
    /\ ~zcall.raised
    /\ zops' = zops + 1
    /\ zpre' = [vc |-> var_constraints, gc |-> general_constraints]
    /\ UNCHANGED <<syncVars, layoutVars, nestVars, freezeVars>>

\* Z3Analyzer::Update(var, range, overwrite) (lines 183-185)
Update ==
    \E v \in Z3VarNames, min \in RangeMins, extent \in RangeExtents, ow \in BOOLEAN :
        /\ Z3Before
        /\ var_constraints' = UpdateFacts(var_constraints, v, min, AddNode(min, extent), ow)
        /\ zcall' = [op |-> "Update", var |-> v, min |-> min, extent |-> extent,
                     overwrite |-> ow,
                     raised |-> Escapes(ConvertThrows(AddNode(min, extent)),
                                        UpdateCatches)]
        /\ UNCHANGED general_constraints

\* Z3Analyzer::Bind (line 176)
Bind ==
    \E v \in Z3VarNames, min \in RangeMins, extent \in RangeExtents :
        /\ Z3Before
        /\ var_constraints' = UpdateFacts(var_constraints, v, min, AddNode(min, extent), FALSE)
        /\ zcall' = [op |-> "Bind", var |-> v, min |-> min, extent |-> extent,
                     overwrite |-> FALSE,
                     raised |-> Escapes(ConvertThrows(AddNode(min, extent)),
                                        UpdateCatches)]
        /\ UNCHANGED general_constraints

\* Z3Analyzer::AddConstraint (lines 207-215): imm is the node pointer, so
\* imm != 0 holds for every integer constant; the conversion of a boolean
\* constraint is not guarded by a try block
AddConstraint ==
    \E c \in Constraints :
        /\ Z3Before
        /\ general_constraints' =
              IF c.kind = "IntImm" THEN Append(general_constraints, BoolVal(TRUE))
              ELSE IF IsBool(c) /\ Converts(c) THEN Append(general_constraints, c)
              ELSE general_constraints
        /\ zcall' = [op |-> "AddConstraint", arg |-> c,
                     raised |-> /\ c.kind # "IntImm"
                                /\ IsBool(c)
                                /\ Escapes(ConvertThrows(c), AddConstraintCatches)]
        /\ UNCHANGED var_constraints

\* Z3Analyzer::AddForallConstraint (lines 217-229): no try block either
AddForallConstraint ==
    \E body \in ForallBodies :
        /\ Z3Before
        /\ general_constraints' =
              IF Converts(body)
              THEN Append(general_constraints, Forall({"x"}, body))
              ELSE general_constraints
        /\ zcall' = [op |-> "AddForallConstraint", arg |-> body,
                     raised |-> Escapes(ConvertThrows(body), AddForallConstraintCatches)]
        /\ UNCHANGED var_constraints

\* Z3Analyzer::CanProve
CanProve ==
    \E cond \in Conds, solver \in SolverAnswers :
        /\ Z3Before
        /\ zcall' = [op |-> "CanProve", arg |-> cond, solver |-> solver,
                     result |-> CanProveResult(var_constraints, general_constraints,
                                               cond, solver),
                     raised |-> Escapes(CanProveThrows(cond, solver), CanProveCatches)]
        /\ UNCHANGED <<var_constraints, general_constraints>>

(***************************************************************************)
(* Schedule::split_tensor_dimension, fuse_tensor_dimensions,               *)
(* reorder_tensor_dimensions, index_by_dense_dimensions                    *)
(***************************************************************************)
\* a DimensionNode: id is the object's identity, name a list of the parts
\* that the code joins with "."
Dim(id, name, type) == [id |-> id, name |-> name, type |-> type]

DimD0 == Dim(1, <<"d0">>, "kRangeDim")
DimD1 == Dim(2, <<"d1">>, "kRangeDim")
DimF == Dim(3, <<"f">>, "kFunDim")
FirstFreshDim == 4

\* compute_op->all_dimensions
AllDimensions == <<DimD0, DimD1, DimF>>
\* the root index dimensions a stage may start from
RootIndexDimensions == {<<DimD0, DimD1>>, <<DimD0, DimF>>, <<DimF>>}

\* DimensionNode::isLoopDim
IsLoopDim(d) == d.type # "kFunDim"

\* std::find over leaf_dims->data: the first position holding the object
FindDim(dims, d) ==
    IF \E n \in 1..Len(dims) : dims[n].id = d.id
    THEN CHOOSE n \in 1..Len(dims) :
             /\ dims[n].id = d.id
             /\ \A m \in 1..(n - 1) : dims[m].id # d.id
    ELSE Len(dims) + 1

\* data.erase(begin + pos) and data.insert(begin + pos, d); pos is 1-based here
EraseAt(dims, pos) == SubSeq(dims, 1, pos - 1) \o SubSeq(dims, pos + 1, Len(dims))
InsertAt(dims, pos, d) == SubSeq(dims, 1, pos - 1) \o <<d>> \o SubSeq(dims, pos, Len(dims))

\* dim_idx2 - 1 on size_t: 0 wraps to SIZE_MAX, which no index below the leaf
\* count equals
SizeMax == 2147483647
SizePred(n) == IF n = 0 THEN SizeMax ELSE n - 1

SplitRel(parent, outer, inner, factor) ==
    [kind |-> "split", parent |-> parent, outer |-> outer, inner |-> inner,
     factor |-> factor]
FuseRel(outer, inner, fused) ==
    [kind |-> "fuse", outer |-> outer, inner |-> inner, fused |-> fused]
ChangeRel(old_dims, new_dims) ==
    [kind |-> "change", old_dims |-> old_dims, new_dims |-> new_dims]

\* the CHECKs of split_tensor_dimension (lines 437-438)
SplitChecks(kind, leaf, dim_idx) ==
    /\ kind = "ComputeOp"
    /\ dim_idx < Len(leaf)

\* a split that leaves the two new dimensions in the order inner, outer
SplitResultInnerFirst(leaf, rels, fresh, dim_idx, factor) ==
    LET parent == leaf[dim_idx + 1]
        inner == Dim(fresh, Append(parent.name, "inner"), parent.type)
        outer == Dim(fresh + 1, Append(parent.name, "outer"), parent.type)
        pos == FindDim(leaf, parent)
    IN  [leaf |-> InsertAt(InsertAt(EraseAt(leaf, pos), pos, outer), pos, inner),
         rels |-> Append(rels, SplitRel(parent, outer, inner, factor)),
         fresh |-> fresh + 2]

\* lines 439-451: the new stage
SplitResult(leaf, rels, fresh, dim_idx, factor) ==
    LET parent == leaf[dim_idx + 1]
        inner == Dim(fresh, Append(parent.name, "inner"), parent.type)
        outer == Dim(fresh + 1, Append(parent.name, "outer"), parent.type)
        pos == FindDim(leaf, parent)
    IN  [leaf |-> InsertAt(InsertAt(EraseAt(leaf, pos), pos, inner), pos, outer),
         rels |-> Append(rels, SplitRel(parent, outer, inner, factor)),
         fresh |-> fresh + 2]

\* the index CHECKs without the adjacency CHECK
IndexChecksOnly(kind, leaf, dim_idx1, dim_idx2) ==
    /\ kind = "ComputeOp"
    /\ dim_idx1 < Len(leaf)
    /\ dim_idx2 < Len(leaf)

\* the CHECKs of fuse_tensor_dimensions and reorder_tensor_dimensions
\* (lines 460-463 and 492-495)
AdjacentChecks(kind, leaf, dim_idx1, dim_idx2) ==
    /\ kind = "ComputeOp"
    /\ dim_idx1 < Len(leaf)
    /\ dim_idx2 < Len(leaf)
    /\ dim_idx1 = SizePred(dim_idx2)

\* a fuse that erases both dimensions and inserts nothing
FuseResultNoFused(leaf, rels, fresh, dim_idx1, dim_idx2) ==
    LET inner == leaf[dim_idx2 + 1]
        outer == leaf[dim_idx1 + 1]
        fused == Dim(fresh, outer.name \o inner.name \o <<"fused">>, "kRangeDim")
        leaf1 == EraseAt(leaf, FindDim(leaf, inner))
    IN  [leaf |-> EraseAt(leaf1, FindDim(leaf1, outer)),
         rels |-> Append(rels, FuseRel(outer, inner, fused)),
         fresh |-> fresh + 1]

\* a fuse that puts the fused dimension at the end of the leaf list
FuseResultFusedLast(leaf, rels, fresh, dim_idx1, dim_idx2) ==
    LET inner == leaf[dim_idx2 + 1]
        outer == leaf[dim_idx1 + 1]
        fused_type == IF inner.type = "kFunDim" \/ outer.type = "kFunDim"
                      THEN "kFunDim" ELSE "kRangeDim"
        fused == Dim(fresh, outer.name \o inner.name \o <<"fused">>, fused_type)
        leaf1 == EraseAt(leaf, FindDim(leaf, inner))
    IN  [leaf |-> Append(EraseAt(leaf1, FindDim(leaf1, outer)), fused),
         rels |-> Append(rels, FuseRel(outer, inner, fused)),
         fresh |-> fresh + 1]

\* lines 465-483
FuseResult(leaf, rels, fresh, dim_idx1, dim_idx2) ==
    LET inner == leaf[dim_idx2 + 1]
        outer == leaf[dim_idx1 + 1]
        fused_type == IF inner.type = "kFunDim" \/ outer.type = "kFunDim"
                      THEN "kFunDim" ELSE "kRangeDim"
        fused == Dim(fresh, outer.name \o inner.name \o <<"fused">>, fused_type)
        pos1 == FindDim(leaf, inner)
        leaf1 == EraseAt(leaf, pos1)
        pos2 == FindDim(leaf1, outer)
    IN  [leaf |-> InsertAt(EraseAt(leaf1, pos2), pos2, fused),
         rels |-> Append(rels, FuseRel(outer, inner, fused)),
         fresh |-> fresh + 1]

\* a reorder that writes dim1 over dim2 and leaves dim1 where it was
ReorderResultCopy(leaf, rels, fresh, dim_idx1, dim_idx2) ==
    LET dim1 == leaf[dim_idx1 + 1]
        dim2 == leaf[dim_idx2 + 1]
    IN  [leaf |-> [leaf EXCEPT ![FindDim(leaf, dim2)] = dim1],
         rels |-> rels,
         fresh |-> fresh]

\* lines 497-506: the leaf list is permuted, no relation is pushed
ReorderResult(leaf, rels, fresh, dim_idx1, dim_idx2) ==
    LET dim1 == leaf[dim_idx1 + 1]
        dim2 == leaf[dim_idx2 + 1]
        pos1 == FindDim(leaf, dim1)
        pos2 == FindDim(leaf, dim2)
    IN  [leaf |-> [[leaf EXCEPT ![pos2] = dim1] EXCEPT ![pos1] = dim2],
         rels |-> rels,
         fresh |-> fresh]

\* lines 514-518: the loop dimensions of a ComputeOp
DenseDims == SelectSeq(AllDimensions, IsLoopDim)

\* lines 570-578
DenseResult(leaf, rels, fresh) ==
    [leaf |-> DenseDims,
     rels |-> Append(rels, ChangeRel(leaf, DenseDims)),
     fresh |-> fresh]

SplitFactors == {2, 4}
\* every valid index and the first invalid one
DimIdxs == 0..Len(leaf_dimensions)

\* a call either fails a CHECK, leaving the stage alone, or installs r
LayoutCall(op, a1, a2, ok, r) ==
    /\ lops < MaxLayoutCalls
    /\ lops' = lops + 1
    /\ lcall' = [op |-> op, a1 |-> a1, a2 |-> a2, failed |-> ~ok,
                 leaf |-> leaf_dimensions, rels |-> relations]
    /\ leaf_dimensions' = IF ok THEN r.leaf ELSE leaf_dimensions
    /\ relations' = IF ok THEN r.rels ELSE relations
    /\ next_dim' = IF ok THEN r.fresh ELSE next_dim
    /\ UNCHANGED <<op_kind, syncVars, z3Vars, nestVars, freezeVars>>

NoResult == [leaf |-> <<>>, rels |-> <<>>, fresh |-> 0]

split_tensor_dimension ==
    \E dim_idx \in DimIdxs, factor \in SplitFactors :
        LET ok == SplitChecks(op_kind, leaf_dimensions, dim_idx)
        IN  LayoutCall("split", dim_idx, factor, ok,
                       IF ok THEN SplitResult(leaf_dimensions, relations, next_dim,
                                              dim_idx, factor)
                       ELSE NoResult)

fuse_tensor_dimensions ==
    \E dim_idx1 \in DimIdxs, dim_idx2 \in DimIdxs :
        LET ok == AdjacentChecks(op_kind, leaf_dimensions, dim_idx1, dim_idx2)
        IN  LayoutCall("fuse", dim_idx1, dim_idx2, ok,
                       IF ok THEN FuseResult(leaf_dimensions, relations, next_dim,
                                             dim_idx1, dim_idx2)
                       ELSE NoResult)

reorder_tensor_dimensions ==
    \E dim_idx1 \in DimIdxs, dim_idx2 \in DimIdxs :
        LET ok == AdjacentChecks(op_kind, leaf_dimensions, dim_idx1, dim_idx2)
        IN  LayoutCall("reorder", dim_idx1, dim_idx2, ok,
                       IF ok THEN ReorderResult(leaf_dimensions, relations, next_dim,
                                                dim_idx1, dim_idx2)
                       ELSE NoResult)

\* a tensor that is neither ComputeOp, ScanOp nor ConditionalOp fails the
\* CHECK of line 567
index_by_dense_dimensions ==
    LET ok == op_kind = "ComputeOp"
    IN  LayoutCall("densify", 0, 0, ok,
                   IF ok THEN DenseResult(leaf_dimensions, relations, next_dim)
                   ELSE NoResult)

(***************************************************************************)
(* The loop-nest builder (op_util.cc).  The stage has no split or fuse     *)
(* relation on its iteration variables: its leaf variables are its root    *)
(* variables in some order.                                                *)
(***************************************************************************)
LeafVarNames == {"i", "j"}
DerivedVarNames == {"p", "q"}

\* an IterVar of the stage with its entry of dom_map ([min, min + extent),
\* extent_vars the variables the extent expression refers to), the thread it
\* is bound to (thread_tag "" when unbound) and its iteration type
IterVar(v, min, extent, extent_vars, thread_tag, iter_type) ==
    [var |-> v, min |-> min, extent |-> extent, extent_vars |-> extent_vars,
     thread_tag |-> thread_tag, iter_type |-> iter_type]

IterVarsOf(v) ==
    { IterVar(v, 0, 2, {}, "", "kDataPar"),
      IterVar(v, 0, 1, {}, "", "kDataPar"),
      IterVar(v, 1, 2, {}, "", "kUnrolled"),
      IterVar(v, 0, 2, {"p"}, "", "kDataPar"),
      IterVar(v, 0, 2, {}, "threadIdx.x", "kDataPar"),
      IterVar(v, 0, 2, {}, "", "kOpaque"),
      IterVar(v, 0, 1, {}, "vthread", "kDataPar") }

Orders(S) ==
    {f \in [1..Cardinality(S) -> S] : \A a, b \in DOMAIN f : a # b => f[a] # f[b]}

\* every order of the leaf variables, each variable in each of its forms
LeafIterVarLists ==
    {l \in [1..Cardinality(LeafVarNames) -> UNION {IterVarsOf(v) : v \in LeafVarNames}] :
        [n \in DOMAIN l |-> l[n].var] \in Orders(LeafVarNames)}

\* a DimInfo: its IterVar, what isLoopDim() and isFunDim() answer for its
\* dimension, and the IterVars of ufun->dimensions
DimInfo(iv, isLoopDim, isFunDim, ufun_dimensions) ==
    [iv |-> iv, isLoopDim |-> isLoopDim, isFunDim |-> isFunDim,
     ufun_dimensions |-> ufun_dimensions]

LoopDimInfo(v) == DimInfo(v, TRUE, FALSE, {})

DerivedDimInfos(v) == {DimInfo(v, FALSE, FALSE, d) : d \in SUBSET LeafVarNames}

FunDimInfo == DimInfo("f", FALSE, TRUE, {"i"})

\* the loop dimensions of the root variables, then either two derived
\* dimensions (the second waits for no leaf variable or for both) or a
\* dimension for which isFunDim() holds
DimInfoLists ==
    { <<LoopDimInfo("i"), LoopDimInfo("j"), p, DimInfo("q", FALSE, FALSE, d)>> :
        p \in DerivedDimInfos("p"), d \in {{}, LeafVarNames} }
    \cup { <<LoopDimInfo("i"), LoopDimInfo("j"), FunDimInfo>> }

\* ---- expressions and statements of the nest ----
NestVar(name, suffix) == [name |-> name, suffix |-> suffix]

VarExpr(v) == [op |-> "var", var |-> v, k |-> 0]
ConstExpr(k) == [op |-> "const", var |-> NestVar("", ""), k |-> k]
\* k + v
AddExpr(k, v) == [op |-> "add", var |-> v, k |-> k]
\* di->ufun->substitute(args, arg_dims)
UfunCall(di) == [op |-> "ufun", var |-> NestVar(di.iv, ""), k |-> 0]

\* a Range's extent: a constant, possibly times calls of uninterpreted
\* functions of the variables in vars
Extent(k, extent_vars) == [k |-> k, vars |-> extent_vars]

NoExtent == Extent(0, {})

ForNode(v, extent, for_type) ==
    [node |-> "For", var |-> v, value |-> ConstExpr(0), extent |-> extent,
     key |-> for_type]

LetStmtNode(v, value) ==
    [node |-> "LetStmt", var |-> v, value |-> value, extent |-> NoExtent, key |-> ""]

AttrStmtNode(v, attr_key, extent) ==
    [node |-> "AttrStmt", var |-> v, value |-> ConstExpr(0), extent |-> extent,
     key |-> attr_key]

\* a test that never finds an extent of one
never_one(extent) == FALSE

is_one(extent) == extent.k = 1 /\ extent.vars = {}
is_positive_const(extent) == extent.k > 0 /\ extent.vars = {}

\* PassDownBitMaskOr on a stage without relations: the marks stay where
\* they are
PassDownBitMaskOr(state) == state

(***************************************************************************)
(* IndexLoopVarDeps (lines 138-218)                                        *)
(***************************************************************************)
VarsOf(dims) == {dims[n].iv : n \in DOMAIN dims}

\* every leaf variable of the state map, generated already or not
AllLeafDims(di, leafs, vm) ==
    {v \in PassDownBitMaskOr(di.ufun_dimensions) :
        v \in {leafs[n].var : n \in DOMAIN leafs}}

\* lines 200-214: the leaf variables a derived dimension waits for
DepLeafDims(di, leafs, vm) ==
    {v \in PassDownBitMaskOr(di.ufun_dimensions) :
        /\ v \in {leafs[n].var : n \in DOMAIN leafs}
        /\ v \notin DOMAIN vm}

IsDerived(di) == ~di.isLoopDim

\* the entries of state of which only the first that counts is entered
RECURSIVE FirstStateEntry(_, _, _, _, _, _)
FirstStateEntry(needed_for, di, its, n, leafs, vm) ==
    IF n > Len(its) THEN needed_for
    ELSE IF its[n] \in DepLeafDims(di, leafs, vm)
    THEN (its[n] :> (IF its[n] \in DOMAIN needed_for THEN needed_for[its[n]]
                     ELSE <<>>) \o <<di>>) @@ needed_for
    ELSE FirstStateEntry(needed_for, di, its, n + 1, leafs, vm)

\* lines 201-213: for (auto it : state), its the keys of state in the order
\* the map yields them; di is appended to the list of every key that counts
RECURSIVE StateLoop(_, _, _, _, _, _)
StateLoop(needed_for, di, its, n, leafs, vm) ==
    IF n > Len(its) THEN needed_for
    ELSE IF its[n] \in DepLeafDims(di, leafs, vm)
    THEN StateLoop((its[n] :> (IF its[n] \in DOMAIN needed_for
                               THEN needed_for[its[n]] ELSE <<>>) \o <<di>>)
                       @@ needed_for,
                   di, its, n + 1, leafs, vm)
    ELSE StateLoop(needed_for, di, its, n + 1, leafs, vm)

\* lines 188-216: the loop over all_dimensions
RECURSIVE DimLoop(_, _, _, _, _, _)
DimLoop(needed_for, dims, n, leafs, vm, order) ==
    IF n > Len(dims) THEN needed_for
    ELSE IF ~IsDerived(dims[n])
    THEN DimLoop(needed_for, dims, n + 1, leafs, vm, order)
    ELSE DimLoop(StateLoop(needed_for, dims[n], order[dims[n].iv], 1, leafs, vm),
                 dims, n + 1, leafs, vm, order)

IndexLoopVarDepsMaps(leafs, dims, vm, order) ==
    LET \* line 150: index_vars is declared and never filled
        index_vars == {}
        root_vars == VarsOf(dims)
        already_generated_vars == DOMAIN vm
        leaf_names == {leafs[n].var : n \in DOMAIN leafs}
        input_vars(v) == leafs[CHOOSE n \in DOMAIN leafs : leafs[n].var = v].extent_vars
        derived == SelectSeq(dims, IsDerived)
    IN  [failed |-> \E n \in DOMAIN dims : dims[n].isFunDim,
         index_vars_loop_vars_depend_on |->
             [v \in leaf_names |->
                 {inp \in input_vars(v) :
                     inp \in index_vars /\ inp \notin already_generated_vars}],
         root_vars_loop_vars_depend_on |->
             [v \in leaf_names |->
                 {inp \in input_vars(v) :
                     inp \in root_vars /\ inp \notin already_generated_vars}],
         index_vars_loop_vars_are_needed_for |->
             DimLoop(<<>>, dims, 1, leafs, vm, order),
         index_vars_dep_count |->
             [v \in VarsOf(derived) |->
                 Cardinality(DepLeafDims(
                     CHOOSE di \in {dims[n] : n \in DOMAIN dims} : di.iv = v,
                     leafs, vm))]]

(***************************************************************************)
(* MakeLoopNestFromDependentVars (lines 235-497)                           *)
(***************************************************************************)
\* a statement put one level too low
EmplaceBackBelow(st, level, stmt) ==
    [st EXCEPT !.nest[level] = Append(@, stmt)]

\* nest[i + 1].emplace_back(stmt); levels are numbered from 0
EmplaceBack(st, level, stmt) ==
    [st EXCEPT !.nest[level + 1] = Append(@, stmt)]

\* value_map[iv] = value
SetValue(st, v, value) ==
    [st EXCEPT !.value_map = (v :> value) @@ @]

NeededFor(needed_for, current) ==
    IF current \in DOMAIN needed_for THEN needed_for[current] ELSE <<>>

\* a loop that binds a waiting dimension whenever one of its variables is
\* generated
RECURSIVE NeededLoopBindsAlways(_, _, _, _, _)
NeededLoopBindsAlways(st, generated_now, dis, n, i) ==
    IF n > Len(dis) THEN [st |-> st, generated_now |-> generated_now]
    ELSE LET di == dis[n]
             var_node == di.iv
         IN  IF var_node \notin DOMAIN st.index_vars_dep_count
             THEN NeededLoopBindsAlways(st, generated_now, dis, n + 1, i)
             ELSE NeededLoopBindsAlways(
                      [EmplaceBack(st, i + 1,
                                   LetStmtNode(NestVar(var_node, ""), UfunCall(di)))
                          EXCEPT !.generated_index_vars = @ \cup {var_node},
                                 !.index_vars_dep_count[var_node] = @ - 1],
                      Append(generated_now, var_node), dis, n + 1, i)

\* lines 463-493: the dimensions that wait for the variable just generated
RECURSIVE NeededLoop(_, _, _, _, _)
NeededLoop(st, generated_now, dis, n, i) ==
    IF n > Len(dis) THEN [st |-> st, generated_now |-> generated_now]
    ELSE LET di == dis[n]
             var_node == di.iv
         IN  IF var_node \notin DOMAIN st.index_vars_dep_count
             THEN NeededLoop(st, generated_now, dis, n + 1, i)
             ELSE IF st.index_vars_dep_count[var_node] = 1
             THEN NeededLoop(
                      [EmplaceBack(st, i + 1,
                                   LetStmtNode(NestVar(var_node, ""), UfunCall(di)))
                          EXCEPT !.generated_index_vars = @ \cup {var_node}],
                      Append(generated_now, var_node), dis, n + 1, i)
             ELSE IF st.index_vars_dep_count[var_node] > 1
             THEN NeededLoop([st EXCEPT !.index_vars_dep_count[var_node] = @ - 1],
                             generated_now, dis, n + 1, i)
             ELSE NeededLoop(st, generated_now, dis, n + 1, i)

\* lines 456-495: the work list of just-generated variables
RECURSIVE Cascade(_, _, _, _)
Cascade(st, generated_now, needed_for, i) ==
    IF generated_now = <<>> THEN st
    ELSE LET current == generated_now[Len(generated_now)]
             r == NeededLoop(st, SubSeq(generated_now, 1, Len(generated_now) - 1),
                             NeededFor(needed_for, current), 1, i)
         IN  Cascade(r.st, r.generated_now, needed_for, i)

\* lines 352-373
ForTypeOf(iter_type) ==
    CASE iter_type = "kUnrolled" -> "Unrolled"
      [] iter_type = "kPeeled" -> "Peeled"
      [] iter_type = "kVectorized" -> "Vectorized"
      [] iter_type = "kParallelized" -> "Parallel"
      [] OTHER -> "Serial"

\* the three cases with the test of min put first
UnboundLoopZeroFirst(st, iv, dom, i, new_var, keep_trivial) ==
    LET var == IF new_var THEN NestVar(iv.var, "init") ELSE NestVar(iv.var, "")
        for_type == ForTypeOf(iv.iter_type)
        idx == NestVar(iv.var, "idx")
    IN  IF dom.min = 0
        THEN SetValue(EmplaceBack(st, i + 1, ForNode(var, dom.extent, for_type)),
                      iv.var, VarExpr(var))
        ELSE IF ~keep_trivial /\ is_one(dom.extent)
        THEN SetValue(EmplaceBack(st, i + 1, LetStmtNode(var, ConstExpr(dom.min))),
                      iv.var, ConstExpr(dom.min))
        ELSE SetValue(
                 EmplaceBack(EmplaceBack(st, i + 1, ForNode(idx, dom.extent, for_type)),
                             i + 1, LetStmtNode(var, AddExpr(dom.min, idx))),
                 iv.var, AddExpr(dom.min, idx))

\* lines 346-403: a leaf variable that is not bound to a thread
UnboundLoop(st, iv, dom, i, new_var, keep_trivial) ==
    LET var == IF new_var THEN NestVar(iv.var, "init") ELSE NestVar(iv.var, "")
        for_type == ForTypeOf(iv.iter_type)
        idx == NestVar(iv.var, "idx")
    IN  IF ~keep_trivial /\ is_one(dom.extent)
        THEN SetValue(EmplaceBack(st, i + 1, LetStmtNode(var, ConstExpr(dom.min))),
                      iv.var, ConstExpr(dom.min))
        ELSE IF dom.min = 0
        THEN SetValue(EmplaceBack(st, i + 1, ForNode(var, dom.extent, for_type)),
                      iv.var, VarExpr(var))
        ELSE SetValue(
                 EmplaceBack(EmplaceBack(st, i + 1, ForNode(idx, dom.extent, for_type)),
                             i + 1, LetStmtNode(var, AddExpr(dom.min, idx))),
                 iv.var, AddExpr(dom.min, idx))

Failed(st) == [st EXCEPT !.failed = TRUE]

\* a thread binding that checks no range and always maps the variable to the
\* thread variable
ThreadLoopUnchecked(st, iv, dom, i, keep_trivial) ==
    LET var == NestVar(iv.thread_tag, "")
        key == CASE iv.thread_tag \in {"vthread", "cthread"} -> "virtual_thread"
                 [] iv.thread_tag = "pipeline" -> "pipeline_exec_scope"
                 [] OTHER -> "thread_extent"
    IN  SetValue(EmplaceBack(st, i + 1, AttrStmtNode(var, key, dom.extent)),
                 iv.var, VarExpr(var))

\* lines 414-447: a leaf variable bound to a thread
ThreadLoop(st, iv, dom, i, keep_trivial) ==
    LET var == NestVar(iv.thread_tag, "")
    IN  IF iv.thread_tag \in {"vthread", "cthread"}
        THEN IF dom.min # 0 \/ ~is_positive_const(dom.extent) THEN Failed(st)
             ELSE SetValue(EmplaceBack(st, i + 1,
                                       AttrStmtNode(var, "virtual_thread", dom.extent)),
                           iv.var, VarExpr(var))
        ELSE IF iv.thread_tag = "pipeline"
        THEN IF dom.min # 0 \/ ~is_one(dom.extent) THEN Failed(st)
             ELSE SetValue(EmplaceBack(st, i + 1,
                                       AttrStmtNode(var, "pipeline_exec_scope",
                                                    dom.extent)),
                           iv.var, ConstExpr(dom.min))
        ELSE IF dom.min # 0 THEN Failed(st)
             ELSE SetValue(EmplaceBack(st, i + 1,
                                       AttrStmtNode(var, "thread_extent", dom.extent)),
                           iv.var,
                           IF ~keep_trivial /\ is_one(dom.extent)
                           THEN ConstExpr(dom.min) ELSE VarExpr(var))

\* a loop body in which a skipped variable still unblocks the dimensions
\* that wait for it
LeafStepSkipUnblocks(st, iv, i, new_var, skip, keep_trivial, maps) ==
    IF iv.var \in skip \/ iv.iter_type \in {"kOpaque", "kLoopNestOpaque", "kSplit"}
    THEN Cascade(SetValue(st, iv.var, VarExpr(NestVar(iv.var, ""))), <<iv.var>>,
                 maps.index_vars_loop_vars_are_needed_for, i)
    ELSE LET dom == [min |-> iv.min, extent |-> Extent(iv.extent, iv.extent_vars)]
             s1 == [st EXCEPT !.generated_loop_vars = @ \cup {iv.var}]
             s2 == IF iv.thread_tag = ""
                   THEN UnboundLoop(s1, iv, dom, i, new_var, keep_trivial)
                   ELSE ThreadLoop(s1, iv, dom, i, keep_trivial)
             s3 == IF ~new_var
                   THEN EmplaceBack(s2, i + 1,
                                    AttrStmtNode(NestVar(iv.var, ""), "loop_scope",
                                                 NoExtent))
                   ELSE s2
         IN  IF s2.failed THEN s2
             ELSE Cascade(s3, <<iv.var>>, maps.index_vars_loop_vars_are_needed_for, i)

\* lines 292-495: the body of the loop over the leaf variables
LeafStep(st, iv, i, new_var, skip, keep_trivial, maps) ==
    IF iv.var \in skip \/ iv.iter_type \in {"kOpaque", "kLoopNestOpaque", "kSplit"}
    THEN SetValue(st, iv.var, VarExpr(NestVar(iv.var, "")))
    ELSE LET all_dependencies_satisfied ==
                 \A idx_var \in maps.index_vars_loop_vars_depend_on[iv.var] :
                     idx_var \in st.generated_index_vars
             \* lines 322-335: RelaxComplexUninterpCalls leaves no call behind
             dom == [min |-> iv.min,
                     extent |-> IF iv.thread_tag = "" /\ ~all_dependencies_satisfied
                                THEN Extent(iv.extent, {})
                                ELSE Extent(iv.extent, iv.extent_vars)]
             s1 == [st EXCEPT !.generated_loop_vars = @ \cup {iv.var}]
             s2 == IF iv.thread_tag = ""
                   THEN UnboundLoop(s1, iv, dom, i, new_var, keep_trivial)
                   ELSE ThreadLoop(s1, iv, dom, i, keep_trivial)
             s3 == IF ~new_var
                   THEN EmplaceBack(s2, i + 1,
                                    AttrStmtNode(NestVar(iv.var, ""), "loop_scope",
                                                 NoExtent))
                   ELSE s2
         IN  IF s2.failed THEN s2
             ELSE Cascade(s3, <<iv.var>>, maps.index_vars_loop_vars_are_needed_for, i)

RECURSIVE LeafLoop(_, _, _, _, _, _, _)
LeafLoop(st, leafs, i, new_var, skip, keep_trivial, maps) ==
    IF i >= Len(leafs) \/ st.failed THEN st
    ELSE LeafLoop(LeafStep(st, leafs[i + 1], i, new_var, skip, keep_trivial, maps),
                  leafs, i + 1, new_var, skip, keep_trivial, maps)

LoopNestFromDependentVars(leafs, begin, new_var, skip, vm, keep_trivial, maps) ==
    LeafLoop([nest |-> [l \in 1..(Len(leafs) + 1) |-> <<>>],
              value_map |-> vm,
              index_vars_dep_count |-> maps.index_vars_dep_count,
              generated_loop_vars |-> {},
              generated_index_vars |-> {},
              failed |-> FALSE],
             leafs, begin, new_var, skip, keep_trivial, maps)

\* ---- MakeComputeOpLoopNest (lines 499-532), call by call ----
IndexLoopVarDeps ==
    /\ npc = "start"
    /\ LET r == IndexLoopVarDepsMaps(leaf_iter_vars, all_dimensions, value_map,
                                     state_order)
       IN  /\ index_vars_loop_vars_depend_on' = r.index_vars_loop_vars_depend_on
           /\ root_vars_loop_vars_depend_on' = r.root_vars_loop_vars_depend_on
           /\ index_vars_loop_vars_are_needed_for' =
                  r.index_vars_loop_vars_are_needed_for
           /\ index_vars_dep_count' = r.index_vars_dep_count
           /\ npc' = IF r.failed THEN "failed" ELSE "indexed"
    /\ UNCHANGED <<leaf_iter_vars, all_dimensions, begin_iter_pos, new_loop_var,
                   skip_iter, debug_keep_trivial_loop, value_map, value_map_in, nest,
                   first_run, state_order, hoisting>>
    /\ UNCHANGED <<syncVars, z3Vars, layoutVars, freezeVars>>

MakeLoopNestFromDependentVars ==
    /\ npc = "indexed"
    /\ LET r == LoopNestFromDependentVars(
                    leaf_iter_vars, begin_iter_pos, new_loop_var, skip_iter, value_map,
                    debug_keep_trivial_loop,
                    [index_vars_loop_vars_depend_on |-> index_vars_loop_vars_depend_on,
                     index_vars_loop_vars_are_needed_for |->
                         index_vars_loop_vars_are_needed_for,
                     index_vars_dep_count |-> index_vars_dep_count])
       IN  /\ nest' = r.nest
           /\ value_map' = r.value_map
           /\ index_vars_dep_count' = r.index_vars_dep_count
           /\ npc' = IF r.failed THEN "failed" ELSE "done"
    /\ UNCHANGED <<leaf_iter_vars, all_dimensions, begin_iter_pos, new_loop_var,
                   skip_iter, debug_keep_trivial_loop, value_map_in, first_run,
                   state_order,
                   index_vars_loop_vars_depend_on, root_vars_loop_vars_depend_on,
                   index_vars_loop_vars_are_needed_for, hoisting>>
    /\ UNCHANGED <<syncVars, z3Vars, layoutVars, freezeVars>>

\* no earlier run
NoRun == [value_map |-> <<>>, nest |-> <<>>]

\* MakeComputeOpLoopNest is called once more with the same stage, dom_map
\* and flags and with *p_value_map as the first call left it; its local
\* maps and its nest are new (lines 507-513)
MakeComputeOpLoopNestAgain ==
    /\ npc = "done"
    /\ first_run = NoRun
    /\ first_run' = [value_map |-> value_map, nest |-> nest]
    /\ value_map_in' = value_map
    /\ nest' = <<>>
    /\ index_vars_loop_vars_depend_on' = <<>>
    /\ root_vars_loop_vars_depend_on' = <<>>
    /\ index_vars_loop_vars_are_needed_for' = <<>>
    /\ index_vars_dep_count' = <<>>
    /\ npc' = "start"
    /\ UNCHANGED <<leaf_iter_vars, all_dimensions, begin_iter_pos, new_loop_var,
                   skip_iter, debug_keep_trivial_loop, value_map, state_order,
                   hoisting>>
    /\ UNCHANGED <<syncVars, z3Vars, layoutVars, freezeVars>>

(***************************************************************************)
(* Schedule::freeze_tensor_dimensions / IndexByDenseLayoutChange           *)
(* (change_tensor_layout.cc, lines 76-431).  Every operation has one       *)
(* output; an operation is identified by a number and a tensor by the      *)
(* operation that produces it.  Stage n of sch->stages starts out holding  *)
(* operation n.                                                            *)
(***************************************************************************)
AccessPatterns == {1, 2}

\* an Operation: the OperationNode fields name, tag and attrs, the explicit
\* dimensions of a scan or conditional, the tensors its body reads (reads:
\* tensor -> the access patterns it is read through), the tensors a scan or
\* conditional is made of, whether its layout is the dense one and whether
\* its realize bounds are set
OpNode(kind, name, reads, state_placeholder, update, init) ==
    [kind |-> kind, name |-> <<name>>, tag |-> <<"tag", name>>,
     attrs |-> <<"attrs", name>>, explicit_dims |-> <<"dims", name>>,
     reads |-> reads, state_placeholder |-> state_placeholder,
     update |-> update, init |-> init, dense |-> FALSE,
     realize_bounds |-> FALSE]

PlaceholderOp(name) == OpNode("PlaceholderOp", name, <<>>, <<>>, <<>>, <<>>)
ComputeOp(name, reads) == OpNode("ComputeOp", name, reads, <<>>, <<>>, <<>>)
ScanOp(name, state_placeholder, update, init) ==
    OpNode("ScanOp", name, <<>>, state_placeholder, update, init)
\* then_case is kept in update and else_case in init
ConditionalOp(name, then_case, else_case) ==
    OpNode("ConditionalOp", name, <<>>, <<>>, then_case, else_case)

\* a read of tensor t through the patterns ps; no read when ps is empty
Reads(t, ps) == IF ps = {} THEN <<>> ELSE (t :> ps)

\* a schedule before freeze: its operations, the stage of each, and the
\* stages whose relation list holds a DimensionChangeNode
Schedule(ops, change_rel) ==
    [ops |-> ops,
     stage_op |-> [n \in 1..Len(ops) |-> n],
     change_rel |-> change_rel,
     op2stage_cache_ |-> <<>>,
     cache_reads |-> <<>>,
     replace_calls |-> <<>>,
     rebuilt |-> <<>>,
     failed |-> FALSE,
     diagnostic |-> [line |-> 0, tensor |-> 0]]

\* a tensor A, an operation R1 that may read it and an operation R2 that may
\* read both
ComputeSchedules ==
    { Schedule(<<ComputeOp("A", <<>>),
                 ComputeOp("R1", Reads(1, r1)),
                 ComputeOp("R2", Reads(1, r2) @@ Reads(2, r3))>>, cr) :
        r1 \in SUBSET AccessPatterns, r2 \in SUBSET AccessPatterns,
        r3 \in {{}, {1}},
        cr \in {{}, {1}, {1, 2}} }

\* a scan S with state placeholder SP, update U (which reads the state),
\* init I (a ComputeOp or a placeholder) and a consumer C of its output
ScanSchedules ==
    { Schedule(<<PlaceholderOp("SP"),
                 ComputeOp("U", Reads(1, pu)),
                 i,
                 ScanOp("S", <<1>>, <<2>>, <<3>>),
                 ComputeOp("C", Reads(4, pc))>>, cr) :
        pu \in SUBSET AccessPatterns, pc \in SUBSET AccessPatterns,
        i \in {PlaceholderOp("I"), ComputeOp("I", <<>>)},
        cr \in {{}, {2, 3, 4}} }

\* a conditional K with then case T, else case E and a consumer C
ConditionalSchedules ==
    { Schedule(<<ComputeOp("T", <<>>),
                 e,
                 ConditionalOp("K", <<1>>, <<2>>),
                 ComputeOp("C", Reads(3, pc))>>, cr) :
        pc \in SUBSET AccessPatterns,
        e \in {PlaceholderOp("E"), ComputeOp("E", <<>>)},
        cr \in {{}, {1, 2, 3}} }

Schedules == ComputeSchedules \cup ScanSchedules \cup ConditionalSchedules

Stages(s) == DOMAIN s.stage_op

\* the tensors an operation takes as input
InputTensors(op) ==
    DOMAIN op.reads \cup {op.update[n] : n \in DOMAIN op.update}
                    \cup {op.init[n] : n \in DOMAIN op.init}

\* ---- the op2stage cache ----
\* Schedule::InitCache: one entry per stage, keyed by the stage's operation
CacheOf(stage_op) ==
    [o \in {stage_op[n] : n \in DOMAIN stage_op} |->
        CHOOSE n \in DOMAIN stage_op : stage_op[n] = o]

\* sch->InvalidateCache(); sch->InitCache();
RebuildCache(s) == [s EXCEPT !.op2stage_cache_ = CacheOf(s.stage_op)]

\* a read of sch->op2stage_cache_ at some line, remembered with whether the
\* cache was built from the stage operations as they are now, and whether
\* the entry read is the stage that holds the key now
ReadCache(s, key, line) ==
    [s EXCEPT !.cache_reads =
        Append(@, [line |-> line, key |-> key,
                   current |-> s.op2stage_cache_ = CacheOf(s.stage_op),
                   hit |-> /\ key \in DOMAIN s.op2stage_cache_
                           /\ s.stage_op[s.op2stage_cache_[key]] = key])]

\* the stage such a read returns
CachedStage(s, key) == s.op2stage_cache_[key]

\* a new operation object
NewOp(s, op) == [s EXCEPT !.ops = Append(@, op)]
LastOp(s) == Len(s.ops)

\* stage->op = op
SetStageOp(s, stage, op) == [s EXCEPT !.stage_op[stage] = op]

\* ---- graph helpers that live outside this file ----
\* GetFeedGraph: the operations held by stages that read tensor t, in stage
\* order
FeedGraphAt(s, t) ==
    LET readers == {n \in Stages(s) : t \in DOMAIN s.ops[s.stage_op[n]].reads}
        RECURSIVE InOrder(_)
        InOrder(n) == IF n > Len(s.stage_op) THEN <<>>
                      ELSE (IF n \in readers THEN <<s.stage_op[n]>> ELSE <<>>)
                           \o InOrder(n + 1)
    IN  InOrder(1)

\* AccessPatternCollector: the distinct patterns through which the readers
\* access tensor t
CollectedPatterns(s, t, readers) ==
    UNION {s.ops[readers[n]].reads[t] : n \in DOMAIN readers}

Renamed(vmap, t) == IF t \in DOMAIN vmap THEN vmap[t] ELSE t

\* Operation::ReplaceInputs: the same operation when it takes no tensor of
\* vmap, else a copy that takes the replacements
ReplacedInputs(op, vmap) ==
    [op EXCEPT !.reads = [t \in {Renamed(vmap, u) : u \in DOMAIN op.reads} |->
                             UNION {op.reads[u] : u \in {w \in DOMAIN op.reads :
                                                            Renamed(vmap, w) = t}}],
               !.update = [n \in DOMAIN op.update |-> Renamed(vmap, op.update[n])],
               !.init = [n \in DOMAIN op.init |-> Renamed(vmap, op.init[n])]]

\* ReplaceDataFlow: stage by stage, an operation that takes a replaced
\* tensor is replaced itself and its output joins vmap
RECURSIVE ReplaceDataFlow(_, _, _)
ReplaceDataFlow(s, vmap, n) ==
    IF n > Len(s.stage_op) THEN s
    ELSE LET old == s.stage_op[n]
         IN  IF InputTensors(s.ops[old]) \cap DOMAIN vmap = {}
             THEN ReplaceDataFlow(s, vmap, n + 1)
             ELSE LET s1 == NewOp(s, ReplacedInputs(s.ops[old], vmap))
                  IN  ReplaceDataFlow(SetStageOp(s1, n, LastOp(s1)),
                                      (old :> LastOp(s1)) @@ vmap, n + 1)

\* ---- ReplaceIndexTensorByDenseTensor (lines 76-110) ----
\* a failed CHECK or an exception: the line it is raised at and the tensor
\* its message names
Fail(s, line, tensor) ==
    [s EXCEPT !.failed = TRUE, !.diagnostic = [line |-> line, tensor |-> tensor]]

\* a check that only asks for some pattern
SomePattern(patterns) == patterns # {}

\* line 88: CHECK_EQ(patterns.size(), 1)
SinglePattern(patterns) == Cardinality(patterns) = 1

\* lines 99-108: each reader is looked up in the cache and replaced by a copy
\* that reads new_tensor
RECURSIVE ReaderLoop(_, _, _, _, _, _)
ReaderLoop(s, readers, n, vmap, old_tensor, new_tensor) ==
    IF n > Len(readers) \/ s.failed THEN [s |-> s, vmap |-> vmap]
    ELSE LET op == readers[n]
             s1 == ReadCache(s, op, 100)
             op_stage == CachedStage(s, op)
             s2 == NewOp(s1, ReplacedInputs(s.ops[op], old_tensor :> new_tensor))
             repl_op == IF old_tensor \in InputTensors(s.ops[op])
                        THEN LastOp(s2) ELSE op
         IN  IF repl_op = s.stage_op[op_stage]
             THEN [s |-> Fail(s1, 103, old_tensor), vmap |-> vmap]
             ELSE ReaderLoop(SetStageOp(s2, op_stage, repl_op), readers, n + 1,
                             (s.stage_op[op_stage] :> repl_op) @@ vmap,
                             old_tensor, new_tensor)

\* one call of ReplaceIndexTensorByDenseTensor, remembered in replace_calls
\* with the readers and patterns it found
ReplaceIndexTensorByDenseTensor(s, stage, old_tensor, new_tensor) ==
    LET s1 == SetStageOp(s, stage, new_tensor)
        readers == FeedGraphAt(s1, old_tensor)
        patterns == CollectedPatterns(s1, old_tensor, readers)
        call == [old_tensor |-> old_tensor, new_tensor |-> new_tensor,
                 readers |-> readers, patterns |-> patterns]
        s2 == [s1 EXCEPT !.replace_calls = Append(@, call)]
        r == ReaderLoop(RebuildCache(s2), readers, 1, <<>>, old_tensor, new_tensor)
    IN  IF readers = <<>> THEN Fail(s2, 82, old_tensor)
        ELSE IF ~SinglePattern(patterns) THEN Fail(s2, 88, old_tensor)
        ELSE IF r.s.failed THEN r.s
        ELSE ReplaceDataFlow(r.s, r.vmap, 1)

\* ---- CreateDenselyIndexedComputeOpCopy (lines 112-143) ----
CreateDenselyIndexedComputeOpCopy(old_op) ==
    [old_op EXCEPT !.dense = TRUE, !.realize_bounds = TRUE]

\* ---- IndexByDenseLayoutChange (lines 156-427) ----
StagesOfKind(s, kind) ==
    SelectSeq([n \in 1..Len(s.stage_op) |-> n],
              LAMBDA n : s.ops[s.stage_op[n]].kind = kind)

\* GetChangeRel(s) finds a DimensionChangeNode
HasChangeRel(s, stage) == stage \in s.change_rel

\* lines 164-190: the scans and conditionals with a layout change, and the
\* operations of their updates and inits, or cases
ChangedStages(s, kind) ==
    SelectSeq(StagesOfKind(s, kind), LAMBDA n : HasChangeRel(s, n))

PartsOf(s, stages) ==
    UNION {InputTensors(s.ops[s.stage_op[stages[n]]]) : n \in DOMAIN stages}

\* lines 192-221: one compute stage (no stage is inlined)
DensifyComputeStage(s, stage, skipped) ==
    LET tensor == s.stage_op[stage]
        s1 == NewOp(s, CreateDenselyIndexedComputeOpCopy(s.ops[tensor]))
    IN  IF tensor \in skipped THEN s
        ELSE IF HasChangeRel(s, stage)
        THEN IF FeedGraphAt(s, tensor) = <<>> THEN Fail(s, 206, tensor)
             ELSE ReplaceIndexTensorByDenseTensor(s1, stage, tensor, LastOp(s1))
        ELSE [s EXCEPT !.ops[tensor].realize_bounds = TRUE]

\* lines 269-276, 347-368: the update (or then case) is looked up in the
\* cache and its stage gets a dense copy
DensifyPart(s, old_part, line) ==
    LET s1 == ReadCache(s, old_part, line)
        part_stage == CachedStage(s, old_part)
        s2 == NewOp(s1, CreateDenselyIndexedComputeOpCopy(s.ops[old_part]))
    IN  SetStageOp(s2, part_stage, LastOp(s2))

\* lines 279-290, 371-383: the same for an init (or else case) that is not
\* a placeholder
DensifyOptionalPart(s, old_part, line) ==
    IF s.ops[old_part].kind = "PlaceholderOp" THEN s
    ELSE DensifyPart(s, old_part, line)

\* a new scan or conditional that takes over nothing but the kind
BareCopyOf(op, new_state, new_update, new_init) ==
    [OpNode(op.kind, ".d", <<>>, new_state, new_update, new_init)
        EXCEPT !.dense = TRUE]

\* lines 293-323, 386-418: the new scan or conditional
DenseCopyOf(op, new_state, new_update, new_init) ==
    [op EXCEPT !.name = Append(@, ".d"),
               !.state_placeholder = new_state,
               !.update = new_update,
               !.init = new_init,
               !.dense = TRUE]

\* the rebuilt operation is remembered with the one it replaces
Rebuild(s, old, new_op) ==
    [NewOp(s, new_op) EXCEPT !.rebuilt = Append(@, [old |-> old, new |-> Len(s.ops) + 1])]

\* lines 234-261: the state placeholder is looked up in the cache and
\* replaced by a placeholder named after it
DensifyState(s, old_state) ==
    LET s1 == ReadCache(s, old_state, 236)
        state_stage == CachedStage(s, old_state)
        s2 == NewOp(s1, [s.ops[old_state] EXCEPT !.name = Append(@, ".d"),
                                                  !.dense = TRUE])
    IN  ReplaceIndexTensorByDenseTensor(s2, state_stage, old_state, LastOp(s2))

\* lines 224-330: one scan stage
DensifyScanStage(s, stage) ==
    LET s1 == DensifyState(RebuildCache(s),
                           s.ops[s.stage_op[stage]].state_placeholder[1])
        new_state == s1.stage_op[CacheOf(s.stage_op)[
                         s.ops[s.stage_op[stage]].state_placeholder[1]]]
        scan_op == s1.stage_op[stage]
        old_update == s1.ops[scan_op].update[1]
        old_init == s1.ops[scan_op].init[1]
        s2 == DensifyPart(RebuildCache(s1), old_update, 272)
        new_update == LastOp(s2)
        s3 == DensifyOptionalPart(s2, old_init, 285)
        new_init == IF s2.ops[old_init].kind = "PlaceholderOp"
                    THEN old_init ELSE LastOp(s3)
        s4 == Rebuild(s3, scan_op,
                      DenseCopyOf(s3.ops[scan_op], <<new_state>>, <<new_update>>,
                                  <<new_init>>))
    IN  IF s1.failed THEN s1
        ELSE ReplaceIndexTensorByDenseTensor(s4, stage, scan_op, LastOp(s4))

\* lines 333-426: one conditional stage
DensifyConditionalStage(s, stage) ==
    LET conditional_op == s.stage_op[stage]
        old_then_case == s.ops[conditional_op].update[1]
        old_else_case == s.ops[conditional_op].init[1]
        s1 == DensifyPart(RebuildCache(s), old_then_case, 350)
        new_then_case == LastOp(s1)
        s2 == DensifyOptionalPart(s1, old_else_case, 377)
        new_else_case == IF s1.ops[old_else_case].kind = "PlaceholderOp"
                         THEN old_else_case ELSE LastOp(s2)
        s3 == Rebuild(s2, conditional_op,
                      DenseCopyOf(s2.ops[conditional_op], <<>>, <<new_then_case>>,
                                  <<new_else_case>>))
    IN  ReplaceIndexTensorByDenseTensor(s3, stage, conditional_op, LastOp(s3))

\* ---- freeze_tensor_dimensions (lines 429-431), stage by stage ----
\* what is left to do once a stage is done
AfterStage(s) ==
    /\ sch' = s
    /\ todo' = IF s.failed THEN todo ELSE Tail(todo)
    /\ fpc' = IF s.failed THEN "failed"
              ELSE IF Tail(todo) = <<>> THEN "done" ELSE "run"
    /\ UNCHANGED <<scan_updates_and_inits, conditional_cases>>
    /\ UNCHANGED <<syncVars, z3Vars, layoutVars, nestVars>>

\* lines 157-190
FreezeBegin ==
    /\ fpc = "start"
    /\ LET scan_stages == ChangedStages(sch, "ScanOp")
           conditional_stages == ChangedStages(sch, "ConditionalOp")
       IN  /\ scan_updates_and_inits' = PartsOf(sch, scan_stages)
           /\ conditional_cases' = PartsOf(sch, conditional_stages)
           /\ todo' = StagesOfKind(sch, "ComputeOp") \o scan_stages
                          \o conditional_stages
    /\ fpc' = IF todo' = <<>> THEN "done" ELSE "run"
    /\ UNCHANGED sch
    /\ UNCHANGED <<syncVars, z3Vars, layoutVars, nestVars>>

FreezeComputeStage ==
    /\ fpc = "run"
    /\ sch.ops[Head(todo)].kind = "ComputeOp"
    /\ AfterStage(DensifyComputeStage(sch, Head(todo),
                                      scan_updates_and_inits \cup conditional_cases))

FreezeScanStage ==
    /\ fpc = "run"
    /\ sch.ops[Head(todo)].kind = "ScanOp"
    /\ AfterStage(DensifyScanStage(sch, Head(todo)))

FreezeConditionalStage ==
    /\ fpc = "run"
    /\ sch.ops[Head(todo)].kind = "ConditionalOp"
    /\ AfterStage(DensifyConditionalStage(sch, Head(todo)))

(***************************************************************************)
(* ThreadSync: the planner, then the inserter (lines 435-440)              *)
(***************************************************************************)
\* planner(stmt)
Plan ==
    /\ spc = "start"
    /\ LET r == Summarize(seq, loop, syncs_inserted_)
       IN  /\ syncs_inserted_' = r.syncs
           /\ summary' = r.head
           /\ spc' = IF r.fatal THEN "fatal" ELSE "planned"
    /\ UNCHANGED <<seq, loop, degraded, condition_counter, body_out, inserter>>
    /\ UNCHANGED <<z3Vars, layoutVars, nestVars, freezeVars>>

\* ThreadSyncInserter(sync_scope, planner.syncs_inserted_)(stmt)
Insert ==
    /\ spc = "planned"
    /\ body_out' = InsertSyncs(Len(seq), 1, syncs_inserted_)
    /\ spc' = "inserted"
    /\ UNCHANGED <<seq, loop, degraded, condition_counter, syncs_inserted_, summary,
                   inserter>>
    /\ UNCHANGED <<z3Vars, layoutVars, nestVars, freezeVars>>

(***************************************************************************)
(* MergeWhileHoisting (op_util.cc): defs is a nest, one list of For, Let   *)
(* and AttrStmt nodes per level, preds the predicates to place in it.  A   *)
(* predicate is an object with an identity (id) and the variables it       *)
(* refers to.                                                              *)
(***************************************************************************)
Pred(id, pvars) ==
    [node |-> "pred", id |-> id, vars |-> pvars]

\* a call of MergeWhileHoisting and what it returned
Hoisting(leaf_vars, defs, preds) ==
    [leaf_vars |-> leaf_vars, defs |-> defs, preds |-> preds, ret |-> <<>>,
     failed |-> FALSE, hpc |-> "start"]

NoHoisting == [Hoisting({}, <<>>, <<>>) EXCEPT !.hpc = "idle"]

\* lines 843-846: the locals before the first generate_preds
HoistLocals(defs) ==
    [ret |-> [l \in 1..Len(defs) |-> <<>>], generated_preds |-> {},
     generated_vars |-> {}, failed |-> FALSE]

RECURSIVE GeneratePredsUngated(_, _, _, _, _)
\* a generate_preds that waits for no variable
GeneratePredsUngated(st, leaf_vars, preds, n, idx) ==
    IF n > Len(preds) THEN st
    ELSE IF preds[n].id \in st.generated_preds
    THEN GeneratePredsUngated(st, leaf_vars, preds, n + 1, idx)
    ELSE GeneratePredsUngated([st EXCEPT !.ret[idx] = Append(@, preds[n]),
                                         !.generated_preds = @ \cup {preds[n].id}],
                              leaf_vars, preds, n + 1, idx)

RECURSIVE GeneratePreds(_, _, _, _, _)
\* generate_preds(idx) (lines 854-870) from predicate n on; level idx of
\* the code is ret[idx] here, levels being counted from 1
GeneratePreds(st, leaf_vars, preds, n, idx) ==
    IF n > Len(preds) THEN st
    ELSE LET pred == preds[n]
             generate == \A var_node \in pred.vars :
                             ~(var_node \notin st.generated_vars
                               /\ var_node \in leaf_vars)
         IN  IF pred.id \in st.generated_preds
             THEN GeneratePreds(st, leaf_vars, preds, n + 1, idx)
             ELSE IF generate
             THEN GeneratePreds([st EXCEPT !.ret[idx] = Append(@, pred),
                                           !.generated_preds = @ \cup {pred.id}],
                                leaf_vars, preds, n + 1, idx)
             ELSE GeneratePreds(st, leaf_vars, preds, n + 1, idx)

\* lines 877-889: the variable a definition adds to generated_vars
GeneratedVars(def) ==
    IF def.node \in {"LetStmt", "For"} THEN {def.var}
    ELSE IF def.node = "AttrStmt" /\ def.key = "thread_extent" THEN {def.var}
    ELSE {}

RECURSIVE MergeDefs(_, _, _, _, _, _)
\* lines 874-894 from definition j of level i on
MergeDefs(st, leaf_vars, defs, preds, i, j) ==
    IF i > Len(defs) \/ st.failed THEN st
    ELSE IF j > Len(defs[i]) THEN MergeDefs(st, leaf_vars, defs, preds, i + 1, 1)
    ELSE LET def == defs[i][j]
             st1 == [st EXCEPT !.generated_vars = @ \cup GeneratedVars(def),
                               !.ret[i] = Append(@, def)]
         IN  IF def.node \notin {"LetStmt", "For", "AttrStmt"}
             THEN [st EXCEPT !.failed = TRUE]
             ELSE MergeDefs(GeneratePreds(st1, leaf_vars, preds, 1, i),
                            leaf_vars, defs, preds, i, j + 1)

\* MergeWhileHoisting (lines 840-896)
MergeWhileHoistingResult(leaf_vars, defs, preds) ==
    MergeDefs(GeneratePreds(HoistLocals(defs), leaf_vars, preds, 1, 1),
              leaf_vars, defs, preds, 1, 1)

MergeWhileHoisting ==
    /\ hoisting.hpc = "start"
    /\ LET r == MergeWhileHoistingResult(hoisting.leaf_vars, hoisting.defs,
                                         hoisting.preds)
       IN  hoisting' = [hoisting EXCEPT !.ret = r.ret, !.failed = r.failed,
                                        !.hpc = "done"]
    /\ UNCHANGED <<leaf_iter_vars, all_dimensions, begin_iter_pos, new_loop_var,
                   skip_iter, debug_keep_trivial_loop, value_map, value_map_in,
                   index_vars_loop_vars_depend_on, root_vars_loop_vars_depend_on,
                   index_vars_loop_vars_are_needed_for, index_vars_dep_count, nest,
                   first_run, state_order, npc>>
    /\ UNCHANGED <<syncVars, z3Vars, layoutVars, freezeVars>>

(***************************************************************************)
(* The walk of ThreadSyncInserter over the statement                       *)
(***************************************************************************)
InserterStep(st) ==
    /\ inserter' = st
    /\ UNCHANGED <<seq, loop, degraded, condition_counter, syncs_inserted_, summary,
                   body_out, spc>>
    /\ UNCHANGED <<z3Vars, layoutVars, nestVars, freezeVars>>

Walking ==
    /\ inserter.failed = 0
    /\ inserter.pos <= Len(inserter.stmt)
    /\ inserter.syncs_ # {}

\* line 267: with no sync point the statement is returned as it is
ReturnUnvisited ==
    /\ inserter.pos = 1
    /\ inserter.stmt # <<>>
    /\ inserter.syncs_ = {}
    /\ InserterStep([inserter EXCEPT !.out = inserter.stmt,
                                     !.pos = Len(inserter.stmt) + 1])

\* VisitStmt (lines 266-284) on a Store or on an Evaluate of a Load
VisitLeaf ==
    /\ Walking
    /\ inserter.stmt[inserter.pos].kind = "stmt"
    /\ LET s == inserter.stmt[inserter.pos]
           st1 == BarrierBefore(inserter)
           st2 == CountAccess(st1, s.access)
       IN  InserterStep(IF st1.failed # 0 THEN st1
                        ELSE [st2 EXCEPT !.out = Append(@, s), !.pos = @ + 1])

\* lines 307-310 of VisitStmt_(AttrStmtNode): up to the visit of the body
EnterThreadExtent ==
    /\ Walking
    /\ inserter.stmt[inserter.pos].kind = "thread_extent"
    /\ LET op == inserter.stmt[inserter.pos]
       IN  InserterStep([inserter EXCEPT
                            !.temp = Append(@, inserter.in_thread_env_),
                            !.in_thread_env_ = TRUE,
                            !.thread_extents_ = Append(@, op.node),
                            !.open = Append(@, Len(inserter.out) + 1),
                            !.out = Append(@, op),
                            !.pos = @ + 1])

\* lines 311-324: the body is visited
LeaveThreadExtent ==
    /\ Walking
    /\ inserter.stmt[inserter.pos].kind = "end"
    /\ InserterStep(AfterThreadExtent(inserter))

(***************************************************************************)
(* Initial states and specifications, one per component                    *)
(***************************************************************************)
SyncIdle ==
    /\ seq = <<>>
    /\ loop = "none"
    /\ degraded = FALSE
    /\ condition_counter = 0
    /\ syncs_inserted_ = {}
    /\ summary = <<>>
    /\ body_out = <<>>
    /\ spc = "idle"
    /\ inserter = NewInserter("shared", <<>>)

NoCall == [op |-> "none", raised |-> FALSE]

Z3Idle ==
    /\ var_constraints = [v \in Z3VarNames |-> <<>>]
    /\ general_constraints = <<>>
    /\ zcall = NoCall
    /\ zpre = [vc |-> [v \in Z3VarNames |-> <<>>], gc |-> <<>>]
    /\ zops = 0

LayoutIdle ==
    /\ op_kind = "ComputeOp"
    /\ leaf_dimensions = <<DimD0, DimD1>>
    /\ relations = <<>>
    /\ next_dim = FirstFreshDim
    /\ lcall = [op |-> "none", failed |-> FALSE]
    /\ lops = 0

NestIdle ==
    /\ leaf_iter_vars = <<>>
    /\ all_dimensions = <<>>
    /\ begin_iter_pos = 0
    /\ new_loop_var = FALSE
    /\ skip_iter = {}
    /\ debug_keep_trivial_loop = FALSE
    /\ value_map = <<>>
    /\ value_map_in = <<>>
    /\ index_vars_loop_vars_depend_on = <<>>
    /\ root_vars_loop_vars_depend_on = <<>>
    /\ index_vars_loop_vars_are_needed_for = <<>>
    /\ index_vars_dep_count = <<>>
    /\ nest = <<>>
    /\ first_run = NoRun
    /\ state_order = <<>>
    /\ npc = "idle"
    /\ hoisting = NoHoisting

FreezeIdle ==
    /\ sch = Schedule(<<>>, {})
    /\ scan_updates_and_inits = {}
    /\ conditional_cases = {}
    /\ todo = <<>>
    /\ fpc = "idle"

LayoutInit ==
    /\ op_kind \in {"ComputeOp", "PlaceholderOp"}
    /\ leaf_dimensions \in RootIndexDimensions
    /\ relations = <<>>
    /\ next_dim = FirstFreshDim
    /\ lcall = [op |-> "none", failed |-> FALSE]
    /\ lops = 0
    /\ SyncIdle
    /\ Z3Idle
    /\ NestIdle
    /\ FreezeIdle

ForTypes == {"none", "Serial", "Parallel"}

SyncInit ==
    /\ seq \in StmtSeqs
    /\ loop \in ForTypes
    /\ degraded \in BOOLEAN
    /\ condition_counter \in {0, 1}
    /\ syncs_inserted_ = {}
    /\ summary = <<>>
    /\ body_out = <<>>
    /\ spc = "start"
    /\ inserter = NewInserter("shared", <<>>)
    /\ Z3Idle
    /\ LayoutIdle
    /\ NestIdle
    /\ FreezeIdle

SyncNext == Plan \/ Insert

SpecSync == SyncInit /\ [][SyncNext]_vars

Z3Init == Z3Idle /\ SyncIdle /\ LayoutIdle /\ NestIdle /\ FreezeIdle

Z3Next == Update \/ Bind \/ AddConstraint \/ AddForallConstraint \/ CanProve

SpecZ3 == Z3Init /\ [][Z3Next]_vars

LayoutNext ==
    \/ split_tensor_dimension
    \/ fuse_tensor_dimensions
    \/ reorder_tensor_dimensions
    \/ index_by_dense_dimensions

SpecLayout == LayoutInit /\ [][LayoutNext]_vars

\* the caller's value map: empty, or holding the leaf variables that come
\* before begin_iter_pos
IncomingValueMaps(leafs, begin) ==
    {<<>>, [v \in {leafs[n].var : n \in 1..begin} |-> VarExpr(NestVar(v, ""))]}

\* for every derived dimension an order of the keys of its state map
StateOrders(dims) ==
    LET derived == {dims[n] : n \in {m \in DOMAIN dims : IsDerived(dims[m])}}
        keys(v) == PassDownBitMaskOr((CHOOSE di \in derived : di.iv = v).ufun_dimensions)
    IN  {f \in [{di.iv : di \in derived} -> UNION {Orders(S) : S \in SUBSET LeafVarNames}] :
            \A v \in DOMAIN f : f[v] \in Orders(keys(v))}

NestInit ==
    /\ leaf_iter_vars \in LeafIterVarLists
    /\ all_dimensions \in DimInfoLists
    /\ begin_iter_pos \in 0..Len(leaf_iter_vars)
    /\ new_loop_var \in BOOLEAN
    /\ skip_iter \in SUBSET LeafVarNames
    /\ debug_keep_trivial_loop \in BOOLEAN
    /\ value_map \in IncomingValueMaps(leaf_iter_vars, begin_iter_pos)
    /\ value_map_in = value_map
    /\ index_vars_loop_vars_depend_on = <<>>
    /\ root_vars_loop_vars_depend_on = <<>>
    /\ index_vars_loop_vars_are_needed_for = <<>>
    /\ index_vars_dep_count = <<>>
    /\ nest = <<>>
    /\ first_run = NoRun
    /\ state_order \in StateOrders(all_dimensions)
    /\ npc = "start"
    /\ hoisting = NoHoisting
    /\ SyncIdle
    /\ Z3Idle
    /\ LayoutIdle
    /\ FreezeIdle

NestNext == IndexLoopVarDeps \/ MakeLoopNestFromDependentVars

SpecNest == NestInit /\ [][NestNext]_vars

\* two derived dimensions that wait for leaf variables, or for none
TwiceDimInfoLists ==
    { <<LoopDimInfo("i"), LoopDimInfo("j"), DimInfo("p", FALSE, FALSE, d),
        DimInfo("q", FALSE, FALSE, LeafVarNames)>> : d \in {{}, {"i"}} }

NestTwiceInit == NestInit /\ all_dimensions \in TwiceDimInfoLists

NestTwiceNext ==
    \/ IndexLoopVarDeps
    \/ MakeLoopNestFromDependentVars
    \/ MakeComputeOpLoopNestAgain

SpecNestTwice == NestTwiceInit /\ [][NestTwiceNext]_vars

\* the caller's value map holds the derived variable p already, next to the
\* leaf variables before begin_iter_pos or to none
GivenValueMaps(leafs, begin) ==
    { ("p" :> VarExpr(NestVar("p", ""))) @@ vm : vm \in IncomingValueMaps(leafs, begin) }

NestGivenInit ==
    /\ leaf_iter_vars \in LeafIterVarLists
    /\ all_dimensions \in TwiceDimInfoLists
    /\ begin_iter_pos \in 0..Len(leaf_iter_vars)
    /\ new_loop_var \in BOOLEAN
    /\ skip_iter \in SUBSET LeafVarNames
    /\ debug_keep_trivial_loop \in BOOLEAN
    /\ value_map \in GivenValueMaps(leaf_iter_vars, begin_iter_pos)
    /\ value_map_in = value_map
    /\ index_vars_loop_vars_depend_on = <<>>
    /\ root_vars_loop_vars_depend_on = <<>>
    /\ index_vars_loop_vars_are_needed_for = <<>>
    /\ index_vars_dep_count = <<>>
    /\ nest = <<>>
    /\ first_run = NoRun
    /\ state_order \in StateOrders(all_dimensions)
    /\ npc = "start"
    /\ hoisting = NoHoisting
    /\ SyncIdle
    /\ Z3Idle
    /\ LayoutIdle
    /\ FreezeIdle

SpecNestGiven == NestGivenInit /\ [][NestNext]_vars

\* leaf variables bound to a hardware thread, a virtual or cooperative
\* thread or a pipeline marker, with ranges the builder accepts and ranges
\* it refuses, and an unbound form
ThreadIterVarsOf(v) ==
    { IterVar(v, 0, 2, {}, "threadIdx.x", "kDataPar"),
      IterVar(v, 0, 1, {}, "threadIdx.x", "kDataPar"),
      IterVar(v, 1, 2, {}, "blockIdx.x", "kDataPar"),
      IterVar(v, 0, 2, {}, "vthread", "kDataPar"),
      IterVar(v, 0, 1, {}, "cthread", "kDataPar"),
      IterVar(v, 0, 2, {"p"}, "vthread", "kDataPar"),
      IterVar(v, 1, 2, {}, "cthread", "kDataPar"),
      IterVar(v, 0, 1, {}, "pipeline", "kDataPar"),
      IterVar(v, 0, 2, {}, "pipeline", "kDataPar"),
      IterVar(v, 0, 2, {}, "", "kDataPar") }

ThreadLeafIterVarLists ==
    {l \in [1..Cardinality(LeafVarNames) ->
                UNION {ThreadIterVarsOf(v) : v \in LeafVarNames}] :
        [n \in DOMAIN l |-> l[n].var] \in Orders(LeafVarNames)}

NestThreadsInit ==
    /\ leaf_iter_vars \in ThreadLeafIterVarLists
    /\ all_dimensions \in TwiceDimInfoLists
    /\ begin_iter_pos \in 0..Len(leaf_iter_vars)
    /\ new_loop_var \in BOOLEAN
    /\ skip_iter \in SUBSET LeafVarNames
    /\ debug_keep_trivial_loop \in BOOLEAN
    /\ value_map \in IncomingValueMaps(leaf_iter_vars, begin_iter_pos)
    /\ value_map_in = value_map
    /\ index_vars_loop_vars_depend_on = <<>>
    /\ root_vars_loop_vars_depend_on = <<>>
    /\ index_vars_loop_vars_are_needed_for = <<>>
    /\ index_vars_dep_count = <<>>
    /\ nest = <<>>
    /\ first_run = NoRun
    /\ state_order \in StateOrders(all_dimensions)
    /\ npc = "start"
    /\ hoisting = NoHoisting
    /\ SyncIdle
    /\ Z3Idle
    /\ LayoutIdle
    /\ FreezeIdle

SpecNestThreads == NestThreadsInit /\ [][NestNext]_vars

FreezeInit ==
    /\ sch \in Schedules
    /\ scan_updates_and_inits = {}
    /\ conditional_cases = {}
    /\ todo = <<>>
    /\ fpc = "start"
    /\ SyncIdle
    /\ Z3Idle
    /\ LayoutIdle
    /\ NestIdle

FreezeNext ==
    \/ FreezeBegin
    \/ FreezeComputeStage
    \/ FreezeScanStage
    \/ FreezeConditionalStage

SpecFreeze == FreezeInit /\ [][FreezeNext]_vars

\* statements of the body of a thread_extent
Leaves == {Leaf(m, a) : m \in BOOLEAN, a \in {"read", "write"}}
ThreadAxes == {BlockAxisX, ThreadAxisX}
Region(node, body) == <<ThreadExtentAttr(node)>> \o body \o <<EndOfBody>>
InnerBodies ==
    {<<s>> : s \in Leaves} \cup {<<Leaf(TRUE, "read"), Leaf(TRUE, "write")>>}
BodyItems ==
    {<<s>> : s \in Leaves} \cup {Region(n, b) : n \in ThreadAxes, b \in InnerBodies}
OuterBodies == BodyItems \cup {a \o b : a \in BodyItems, b \in BodyItems}
SecondRegions ==
    {<<>>} \cup {Region(n, <<s>>) : n \in ThreadAxes,
                                   s \in {Leaf(TRUE, "read"), Leaf(FALSE, "write")}}
\* one thread_extent region, or two of them one after the other
InserterStmts ==
    {Region(n, b) \o r : n \in ThreadAxes, b \in OuterBodies, r \in SecondRegions}
SyncScopes == {"global", "shared"}

InserterInit ==
    /\ seq = <<>>
    /\ loop = "none"
    /\ degraded = FALSE
    /\ condition_counter = 0
    /\ syncs_inserted_ = {}
    /\ summary = <<>>
    /\ body_out = <<>>
    /\ spc = "idle"
    /\ inserter \in {NewInserter(sc, s) : sc \in SyncScopes, s \in InserterStmts}
    /\ Z3Idle
    /\ LayoutIdle
    /\ NestIdle
    /\ FreezeIdle

InserterNext ==
    \/ ReturnUnvisited
    \/ VisitLeaf
    \/ EnterThreadExtent
    \/ LeaveThreadExtent

SpecInserter == InserterInit /\ [][InserterNext]_vars

\* the leaf variables i and j of the stage, a variable p that a Let of the
\* nest defines and a variable n that nothing in the nest defines
HoistLeafVars == {NestVar("i", ""), NestVar("j", "")}
HoistI == NestVar("i", "")
HoistJ == NestVar("j", "")
HoistP == NestVar("p", "")
HoistN == NestVar("n", "")

\* what MakeLoopNest emits for a leaf variable: a loop, a Let for a loop
\* of one iteration, or the attribute of a thread binding
LeafLevels(v) ==
    { <<ForNode(v, Extent(2, {}), "Serial")>>,
      <<LetStmtNode(v, ConstExpr(0))>>,
      <<AttrStmtNode(v, "thread_extent", Extent(2, {}))>>,
      <<AttrStmtNode(v, "virtual_thread", Extent(2, {}))>>,
      <<AttrStmtNode(v, "loop_scope", NoExtent), ForNode(v, Extent(2, {}), "Serial")>>,
      <<ForNode(v, Extent(2, {}), "Serial"), LetStmtNode(HoistP, VarExpr(v))>> }

HoistDefs ==
    { <<l0>> \o <<l1>> \o rest :
        l0 \in {<<>>, <<LetStmtNode(HoistP, ConstExpr(0))>>},
        l1 \in LeafLevels(HoistI),
        rest \in {<<>>} \cup {<<l2>> : l2 \in LeafLevels(HoistJ)} }

PredVars ==
    {{}, {HoistI}, {HoistJ}, {HoistI, HoistJ}, {HoistP, HoistN}, {HoistI, HoistP}}

\* one or two predicates, or the same predicate object twice
HoistPreds ==
    {<<Pred(1, a)>> : a \in PredVars}
        \cup {<<Pred(1, a), Pred(2, b)>> : a \in PredVars, b \in PredVars}
        \cup {<<Pred(1, a), Pred(1, a)>> : a \in PredVars}

HoistInit ==
    /\ leaf_iter_vars = <<>>
    /\ all_dimensions = <<>>
    /\ begin_iter_pos = 0
    /\ new_loop_var = FALSE
    /\ skip_iter = {}
    /\ debug_keep_trivial_loop = FALSE
    /\ value_map = <<>>
    /\ value_map_in = <<>>
    /\ index_vars_loop_vars_depend_on = <<>>
    /\ root_vars_loop_vars_depend_on = <<>>
    /\ index_vars_loop_vars_are_needed_for = <<>>
    /\ index_vars_dep_count = <<>>
    /\ nest = <<>>
    /\ first_run = NoRun
    /\ state_order = <<>>
    /\ npc = "idle"
    /\ hoisting \in {Hoisting(HoistLeafVars, d, p) : d \in HoistDefs, p \in HoistPreds}
    /\ SyncIdle
    /\ Z3Idle
    /\ LayoutIdle
    /\ FreezeIdle

SpecHoist == HoistInit /\ [][MergeWhileHoisting]_vars

(***************************************************************************)
(* Properties of the planner and the inserter                              *)
(***************************************************************************)
IsSync(a) == a.type = "kSync"
OppositeKinds(x, e) ==
    \/ x.type = "kRead" /\ e.type = "kWrite"
    \/ x.type = "kWrite" /\ e.type = "kRead"

SyncInStmt(m) == \E j \in 1..Len(seq[m]) : IsSync(seq[m][j])
SyncAfterInStmt(a, ja) == \E j \in (ja + 1)..Len(seq[a]) : IsSync(seq[a][j])
SyncBeforeInStmt(b, jb) == \E j \in 1..(jb - 1) : IsSync(seq[b][j])
Marked(m) == m \in syncs_inserted_

\* a sync point between access ja of statement a and access jb of a later
\* statement b of the same pass over the sequence
SeparatedForward(a, ja, b, jb) ==
    \/ \E m \in (a + 1)..b : Marked(m)
    \/ SyncAfterInStmt(a, ja)
    \/ \E m \in (a + 1)..(b - 1) : SyncInStmt(m)
    \/ SyncBeforeInStmt(b, jb)

\* a sync point between access ja of statement a in one iteration and access
\* jb of statement b in the next iteration
SeparatedCarried(a, ja, b, jb) ==
    \/ \E m \in (a + 1)..Len(seq) : Marked(m)
    \/ \E m \in 1..b : Marked(m)
    \/ SyncAfterInStmt(a, ja)
    \/ \E m \in (a + 1)..Len(seq) : SyncInStmt(m)
    \/ \E m \in 1..(b - 1) : SyncInStmt(m)
    \/ SyncBeforeInStmt(b, jb)

\* the touched intervals are provably disjoint: one lies entirely below the other
ProvablyDisjoint(x, e) ==
    \/ AnalyzerCanProve(Lt(x.touched.max, e.touched.min))
    \/ AnalyzerCanProve(Lt(e.touched.max, x.touched.min))

EqualSinglePoints(x, e) ==
    /\ x.touched.single
    /\ e.touched.single
    /\ EqualSimplified(x.touched.min, e.touched.min)

DoubleBufferExempt(x, e) == x.double_buffer_write /\ e.type = "kRead"

\* an earlier access x and a later access e that need a sync point between them
NeedsSync(x, e, loop_carry) ==
    /\ OppositeKinds(x, e)
    /\ x.buffer = e.buffer
    /\ ~ProvablyDisjoint(x, e)
    /\ ~EqualSinglePoints(x, e)
    /\ ~(DoubleBufferExempt(x, e) /\ ~loop_carry)

AccessPairs ==
    { p \in (1..Len(seq)) \X (1..3) \X (1..Len(seq)) \X (1..3) :
        /\ p[2] <= Len(seq[p[1]])
        /\ p[4] <= Len(seq[p[3]])
        /\ p[1] # p[3] }

\* C1: after Summarize, every read/write pair on one buffer in two different
\* statements whose intervals are neither provably disjoint nor provably equal
\* single points (and not double-buffer exempt) has a sync point between the
\* two accesses, also across two iterations of a serial loop.
C1_SyncBetweenConflictingAccesses ==
    spc = "planned" =>
        \A p \in AccessPairs :
            LET x == seq[p[1]][p[2]]
                e == seq[p[3]][p[4]]
            IN  /\ (p[1] < p[3] /\ NeedsSync(x, e, FALSE))
                     => SeparatedForward(p[1], p[2], p[3], p[4])
                /\ (loop = "Serial"
                     /\ NeedsSync(x, UpdatedForSequentialLoop(e, "Serial"), TRUE))
                     => SeparatedCarried(p[1], p[2], p[3], p[4])

\* the original statements of the rewritten body, in order
RECURSIVE OriginalsOf(_)
OriginalsOf(out) ==
    IF out = <<>>
    THEN <<>>
    ELSE IF Head(out).kind = "stmt"
    THEN <<Head(out).stmt>> \o OriginalsOf(Tail(out))
    ELSE OriginalsOf(Tail(out))

\* C3: the inserter puts one barrier immediately before each marked statement
\* and nowhere else, keeps every original statement and keeps their order.
C3_BarrierBeforeEachMarkedStmt ==
    spc = "inserted" =>
        /\ OriginalsOf(body_out) = [i \in 1..Len(seq) |-> i]
        /\ \A p \in 1..Len(body_out) :
              /\ body_out[p].kind = "barrier" =>
                    /\ p < Len(body_out)
                    /\ body_out[p + 1].kind = "stmt"
                    /\ Marked(body_out[p + 1].stmt)
              /\ (body_out[p].kind = "stmt" /\ Marked(body_out[p].stmt)) =>
                    /\ p > 1
                    /\ body_out[p - 1].kind = "barrier"

\* a rewritten body with a marked and an unmarked statement
C3_Witness ==
    /\ spc = "inserted"
    /\ \E i, j \in 1..Len(seq) : Marked(i) /\ ~Marked(j)
    /\ Len(body_out) = Len(seq) + Cardinality(syncs_inserted_)

SyncEntries(list) == { n \in 1..Len(list) : IsSync(list[n]) }

\* C4: the list Summarize returns holds at most one sync entry, and exactly
\* one if and only if some statement is marked or carries an explicit sync.
C4_AtMostOneSyncEntry ==
    spc = "planned" =>
        /\ Cardinality(SyncEntries(summary)) <= 1
        /\ Cardinality(SyncEntries(summary)) = 1 <=>
              \E m \in 1..Len(seq) : Marked(m) \/ SyncInStmt(m)

\* two adjacent marked statements, compressed to one sync entry
C4_Witness ==
    /\ spc = "planned"
    /\ Len(seq) >= 2
    /\ Marked(1)
    /\ Marked(2)
    /\ Cardinality(SyncEntries(summary)) = 1

\* C5: with a degraded prover every read/write pair on one buffer in two
\* different statements of the sequence is separated by a sync point, except
\* identical single points and double-buffer exempt pairs.
C5_DegradedProverStillSeparates ==
    (spc = "planned" /\ degraded) =>
        \A p \in AccessPairs :
            LET x == seq[p[1]][p[2]]
                e == seq[p[3]][p[4]]
            IN  (/\ p[1] < p[3]
                 /\ OppositeKinds(x, e)
                 /\ x.buffer = e.buffer
                 /\ ~EqualSinglePoints(x, e)
                 /\ ~DoubleBufferExempt(x, e))
                => SeparatedForward(p[1], p[2], p[3], p[4])

\* a degraded run that had to mark a statement for intervals a working prover
\* shows disjoint
C5_Witness ==
    /\ spc = "planned"
    /\ degraded
    /\ Len(seq) = 2
    /\ Marked(2)
    /\ \E ja \in 1..Len(seq[1]), jb \in 1..Len(seq[2]) :
          /\ OppositeKinds(seq[1][ja], seq[2][jb])
          /\ seq[1][ja].buffer = seq[2][jb].buffer
          /\ Valid(Lt(seq[1][ja].touched.max, seq[2][jb].touched.min))

\* a loop body that reads buf[i] and then writes buf[i], in one statement
\* or in two
ReadThenWriteSameIndex ==
    /\ loop # "none"
    /\ seq \in { << <<Rd("A", LoopVarPoint), Wr("A", LoopVarPoint)>> >>,
                  << <<Rd("A", LoopVarPoint)>>, <<Wr("A", LoopVarPoint)>> >> }

Planned == spc \in {"planned", "inserted", "fatal"}

\* C20: for a loop body that reads buf[i] and then writes buf[i] the planner
\* marks no sync point and fails no check when the loop is not serial, or
\* when the prover proves i < i + 1 for the shifted accesses of a serial
\* loop; when the loop is serial and the prover proves nothing, the
\* simulated next iteration reports a conflict at the first statement.
C20_ReadThenWriteSameIndexNoSync ==
    (Planned /\ ReadThenWriteSameIndex) =>
        IF loop = "Serial" /\ degraded
        THEN IF condition_counter = 0
             THEN spc # "fatal" /\ syncs_inserted_ = {1}
             ELSE spc = "fatal"
        ELSE spc # "fatal" /\ syncs_inserted_ = {}

\* a serial loop, read and write in two statements, the prover at work
C20_Witness ==
    /\ spc = "planned"
    /\ ReadThenWriteSameIndex
    /\ loop = "Serial"
    /\ ~degraded
    /\ Len(seq) = 2
    /\ syncs_inserted_ = {}

\* C20 as stated: for a loop body that reads buf[i] and then writes buf[i]
\* the planner marks no sync point.
C20_ReadThenWriteNeverSynced ==
    (Planned /\ ReadThenWriteSameIndex) =>
        spc # "fatal" /\ syncs_inserted_ = {}

\* the body of a loop that reads buf[i] and then writes buf[i + 1]
ReadThenWriteNextIndex ==
    seq = << <<Rd("A", LoopVarPoint)>>, <<Wr("A", LoopVarNext)>> >>

\* C21: for a serial loop whose body reads buf[i] and then writes buf[i + 1]
\* the simulated next iteration detects the loop-carried conflict and exactly
\* one sync point is marked in the loop body.
C21_LoopCarriedConflictMarked ==
    (spc = "planned" /\ loop = "Serial" /\ ReadThenWriteNextIndex) =>
        /\ Cardinality(syncs_inserted_) = 1
        /\ ForwardScan(seq, 1, [reads |-> <<>>, writes |-> <<>>,
                                syncs |-> {}, fatal |-> FALSE]).syncs = {}

\* the accesses of statement m of the given kind, in order
AccessesOfKind(m, kind) == SelectSeq(seq[m], LAMBDA a : a.type = kind)

OppositeKind(kind) == IF kind = "kRead" THEN "kWrite" ELSE "kRead"

\* a sequence of two statements outside a loop whose second statement has a
\* single read or write: the forward scan asks FindConflict once about it,
\* against the opposite-kind accesses of the first statement
OneQuery ==
    /\ loop = "none"
    /\ Len(seq) = 2
    /\ ~SyncInStmt(1)
    /\ Len(seq[2]) = 1
    /\ ~IsSync(seq[2][1])

\* C22: FindConflict reports a conflict exactly when some earlier access is
\* to the same buffer and is neither an equal single point, nor provably
\* disjoint (one interval entirely below the other), nor a double-buffer
\* write followed by a read in a query that is not loop-carried.
C22_ConflictExactlyWithoutExemption ==
    (spc = "planned" /\ OneQuery) =>
        LET e == seq[2][1]
            vec == AccessesOfKind(1, OppositeKind(e.type))
        IN  Marked(2) <=>
                \E n \in 1..Len(vec) :
                    /\ vec[n].buffer = e.buffer
                    /\ ~EqualSinglePoints(vec[n], e)
                    /\ ~ProvablyDisjoint(vec[n], e)
                    /\ ~DoubleBufferExempt(vec[n], e)

\* the unsynced accesses are emptied between access ja of statement a and
\* access jb of the later statement b: a statement after a and before b is
\* marked, or an explicit sync access lies between the two
Flushed(a, ja, b, jb) ==
    \/ \E m \in (a + 1)..(b - 1) : Marked(m) \/ SyncInStmt(m)
    \/ SyncAfterInStmt(a, ja)
    \/ SyncBeforeInStmt(b, jb)

\* the accesses of statement m of the given kind that follow its last
\* explicit sync access
OwnUnsynced(m, kind) ==
    LET syncs == {j \in 1..Len(seq[m]) : IsSync(seq[m][j])}
        from == IF syncs = {} THEN 1
                ELSE 1 + CHOOSE j \in syncs : \A k \in syncs : k <= j
    IN  SelectSeq(SubSeq(seq[m], from, Len(seq[m])), LAMBDA a : a.type = kind)

NoAccesses == [reads |-> <<>>, writes |-> <<>>, syncs |-> {}, fatal |-> FALSE]

\* C23: in the forward scan a statement becomes a sync point if and only if
\* one of its accesses conflicts with an access of the opposite kind of an
\* earlier statement that no sync has flushed since; when the last statement
\* is marked, the unsynced sets hold exactly that statement's own accesses
\* after its last explicit sync.
C23_ForwardScanMarksAndFlushes ==
    (spc = "planned" /\ loop = "none") =>
        /\ \A m \in 1..Len(seq) :
              Marked(m) <=>
                 \E a \in 1..(m - 1) :
                    \E ja \in 1..Len(seq[a]), jb \in 1..Len(seq[m]) :
                       /\ OppositeKinds(seq[a][ja], seq[m][jb])
                       /\ ConflictsWith(seq[a][ja], seq[m][jb], FALSE)
                       /\ ~Flushed(a, ja, m, jb)
        /\ Marked(Len(seq)) =>
              LET st == ForwardScan(seq, 1, NoAccesses)
              IN  /\ st.reads = OwnUnsynced(Len(seq), "kRead")
                  /\ st.writes = OwnUnsynced(Len(seq), "kWrite")

\* three statements: the second is marked, and the third would conflict
\* with the first had the sync not flushed the first statement's access
C23_Witness ==
    /\ spc = "planned"
    /\ loop = "none"
    /\ Len(seq) = 3
    /\ Marked(2)
    /\ ~Marked(3)
    /\ \E ja \in 1..Len(seq[1]), jb \in 1..Len(seq[3]) :
          /\ OppositeKinds(seq[1][ja], seq[3][jb])
          /\ ConflictsWith(seq[1][ja], seq[3][jb], FALSE)
          /\ ~SyncAfterInStmt(1, ja)
          /\ ~SyncBeforeInStmt(3, jb)

\* c * (loop_var + 1) + t * threadIdx + k
NextIteration(e) == E(e.c, e.t, e.k + e.c)

\* the access the loop pass tests for access e of the body
TestedAccess(e) ==
    IF loop = "Serial"
    THEN Acc(e.type, e.buffer,
             [min |-> NextIteration(e.touched.min),
              max |-> NextIteration(e.touched.max),
              single |-> e.touched.single],
             e.double_buffer_write)
    ELSE e

\* the statements the forward scan marks and the accesses it leaves unsynced
ForwardResult == ForwardScan(seq, 1, NoAccesses)

Unsynced == ForwardResult.reads \o ForwardResult.writes

\* statement m is reached by the loop pass with unsynced accesses left, and
\* one of its tested accesses conflicts with one of them
CarriedConflict(m) ==
    /\ \A n \in 1..m : n \notin ForwardResult.syncs
    /\ \A n \in 1..(m - 1) : ~SyncInStmt(n)
    /\ \E jb \in 1..Len(seq[m]), n \in 1..Len(Unsynced) :
          /\ ~SyncBeforeInStmt(m, jb)
          /\ OppositeKinds(Unsynced[n], seq[m][jb])
          /\ ConflictsWith(Unsynced[n], TestedAccess(seq[m][jb]), TRUE)

\* C24: in the loop pass each statement from the start of the body is tested
\* against the accesses the forward scan left unsynced, shifted to the next
\* iteration for a Serial loop and unchanged for any other loop; the pass
\* stops at the first statement the forward scan marked, finds nothing when
\* no unsynced access remains, and marks only the first statement with a
\* conflict.
C24_LoopPassMarksFirstCarriedConflict ==
    (spc = "planned" /\ loop # "none") =>
        LET carried == {m \in 1..Len(seq) : CarriedConflict(m)}
        IN  /\ ForwardResult.syncs \subseteq syncs_inserted_
            /\ Cardinality(syncs_inserted_ \ ForwardResult.syncs) <= 1
            /\ \A m \in 1..Len(seq) :
                  m \in syncs_inserted_ \ ForwardResult.syncs <=>
                      /\ m \in carried
                      /\ \A n \in carried : m <= n

\* a serial loop of three statements: the forward scan marks the third, the
\* loop pass passes the first, which conflicts unless it is shifted, and
\* marks the second
C24_Witness ==
    /\ spc = "planned"
    /\ loop = "Serial"
    /\ Len(seq) = 3
    /\ ForwardResult.syncs = {3}
    /\ syncs_inserted_ = {2, 3}
    /\ \E jb \in 1..Len(seq[1]), n \in 1..Len(Unsynced) :
          /\ OppositeKinds(Unsynced[n], seq[1][jb])
          /\ ConflictsWith(Unsynced[n], seq[1][jb], TRUE)

\* the accesses of statements m .. Len(seq) in order, a sync entry standing
\* before each marked statement
RECURSIVE FlatFrom(_)
FlatFrom(m) ==
    IF m > Len(seq) THEN <<>>
    ELSE (IF Marked(m) THEN <<SyncAcc>> ELSE <<>>) \o seq[m] \o FlatFrom(m + 1)

\* what is exposed of a list of accesses: the part before its first sync,
\* one sync entry, the part after its last sync
ExposedOf(flat) ==
    LET syncs == {n \in 1..Len(flat) : IsSync(flat[n])}
        first == CHOOSE n \in syncs : \A k \in syncs : n <= k
        last == CHOOSE n \in syncs : \A k \in syncs : k <= n
    IN  IF syncs = {} THEN flat
        ELSE SubSeq(flat, 1, first - 1) \o <<SyncAcc>>
                 \o SubSeq(flat, last + 1, Len(flat))

FlagsCleared(list) ==
    [n \in 1..Len(list) |-> [list[n] EXCEPT !.double_buffer_write = FALSE]]

\* the reads a later statement may make of buffer A
LaterReads == {Rd("A", p) : p \in {LoopVarPoint, LoopVarNext, ConstRange, ConstHigh}}

\* C25: the entries Summarize returns for a sequence enclosed in a loop are
\* the exposed accesses with the double-buffer-write flag cleared, so that no
\* later read is exempted from a conflict with them; without a loop they are
\* the exposed accesses with their flags unchanged.
C25_LoopClearsDoubleBufferFlags ==
    spc = "planned" =>
        IF loop # "none"
        THEN /\ summary = FlagsCleared(ExposedOf(FlatFrom(1)))
             /\ \A n \in 1..Len(summary) : ~summary[n].double_buffer_write
             /\ \A n \in 1..Len(summary), e \in LaterReads :
                   ConflictsWith(summary[n], e, FALSE)
                       <=> ConflictsWith(summary[n], e, TRUE)
        ELSE summary = ExposedOf(FlatFrom(1))

\* a loop whose body holds an exposed double-buffer write: the returned
\* entry is the write with its flag cleared, and a later read conflicts
C25_Witness ==
    /\ spc = "planned"
    /\ loop # "none"
    /\ \E m \in 1..Len(seq) : seq[m] = <<DbWr("A", LoopVarPoint)>>
    /\ \A m \in 1..Len(seq) : seq[m] # <<Wr("A", LoopVarPoint)>>
    /\ \E n \in 1..Len(summary) :
          /\ summary[n] = Wr("A", LoopVarPoint)
          /\ ConflictsWith(summary[n], Rd("A", ConstRange), FALSE)
          /\ ~ConflictsWith(DbWr("A", LoopVarPoint), Rd("A", ConstRange), FALSE)

\* only an explicit sync access lies between access ja of statement a and
\* access jb of the later statement b
ExplicitlyFlushed(a, ja, b, jb) ==
    \/ \E m \in (a + 1)..(b - 1) : SyncInStmt(m)
    \/ SyncAfterInStmt(a, ja)
    \/ SyncBeforeInStmt(b, jb)

\* with no statement marked so far, the forward scan decides on a sync
\* before statement m
ForwardSyncNeeded(m) ==
    \E a \in 1..(m - 1) :
       \E ja \in 1..Len(seq[a]), jb \in 1..Len(seq[m]) :
          /\ OppositeKinds(seq[a][ja], seq[m][jb])
          /\ ConflictsWith(seq[a][ja], seq[m][jb], FALSE)
          /\ ~ExplicitlyFlushed(a, ja, m, jb)

\* C36: when the forward scan or the loop pass decides on a sync while the
\* condition counter is not zero, the analysis ends with the fatal error
\* "Cannot insert syncs inside condition" and no statement is marked; with
\* the counter at zero the CHECK never fails.  The planner only adds to the
\* sync set: whatever was marked before a pass is marked after it.
C36_NoSyncMarkedInsideCondition ==
    /\ (Planned /\ condition_counter # 0) =>
           /\ syncs_inserted_ = {}
           /\ spc = "fatal" <=>
                  \/ \E m \in 1..Len(seq) : ForwardSyncNeeded(m)
                  \/ loop # "none" /\ \E m \in 1..Len(seq) : CarriedConflict(m)
    /\ (Planned /\ condition_counter = 0) => spc # "fatal"
    /\ Planned =>
           \A syncs0 \in SUBSET (1..Len(seq)) :
               syncs0 \subseteq PlanSyncs(seq, loop, syncs0).syncs

\* inside a condition: a conflict found by the forward scan, and one found
\* only by the loop pass
C36_Witness ==
    /\ spc = "fatal"
    /\ condition_counter = 1
    /\ syncs_inserted_ = {}
    /\ \/ \E m \in 1..Len(seq) : ForwardSyncNeeded(m)
       \/ /\ loop = "Serial"
          /\ \A m \in 1..Len(seq) : ~ForwardSyncNeeded(m)
          /\ \E m \in 1..Len(seq) : CarriedConflict(m)

\* how many of the first n entries of list have one of the kinds
CountKinds(list, n, kinds) ==
    Cardinality({k \in 1..n : list[k].kind \in kinds})

\* the number of thread_extent bodies that entry n of list stands in
DepthAt(list, n) ==
    CountKinds(list, n - 1, {"thread_extent"}) - CountKinds(list, n - 1, {"end"})

OutermostRegions(list) ==
    {n \in 1..Len(list) : list[n].kind = "thread_extent" /\ DepthAt(list, n) = 0}

\* the thread_extent regions of the output whose visit has returned
Returned(n) == \A k \in 1..Len(inserter.open) : inserter.open[k] # n

\* C34: for the global sync scope and at least one sync point the inserter
\* puts, for each outermost thread_extent region and once for each, the
\* tvm_prepare_global_barrier call right before the region and the
\* tvm_global_barrier_kinit call first inside it; a thread_extent inside
\* another one gets neither, and for another scope neither call appears.
C34_OutermostRegionWrappedOnce ==
    LET out == inserter.out
        wrapped == {n \in OutermostRegions(out) : Returned(n)}
    IN  /\ \A n \in 1..Len(out) :
               out[n] \in {Prepare, Kinit} => inserter.sync_scope_ = "global"
        /\ \A n \in 1..Len(out) :
               (out[n].kind = "thread_extent" /\ DepthAt(out, n) > 0) =>
                   /\ out[n - 1] # Prepare
                   /\ n < Len(out) => out[n + 1] # Kinit
        /\ (inserter.sync_scope_ = "global" /\ inserter.syncs_ # {}) =>
               /\ \A n \in wrapped :
                      /\ n > 1
                      /\ out[n - 1] = Prepare
                      /\ out[n + 1] = Kinit
               /\ CountKinds(out, Len(out), {Prepare.kind}) = Cardinality(wrapped)
               /\ CountKinds(out, Len(out), {Kinit.kind}) = Cardinality(wrapped)
               /\ inserter.pos > Len(inserter.stmt) =>
                      Cardinality(wrapped)
                          = Cardinality(OutermostRegions(inserter.stmt))

\* the walk is over: two regions one after the other, both wrapped, and a
\* region inside the first
C34_Witness ==
    /\ inserter.sync_scope_ = "global"
    /\ inserter.failed = 0
    /\ inserter.stmt # <<>>
    /\ inserter.pos > Len(inserter.stmt)
    /\ CountKinds(inserter.out, Len(inserter.out), {Prepare.kind}) = 2
    /\ \E n \in 1..Len(inserter.out) :
           /\ inserter.out[n].kind = "thread_extent"
           /\ DepthAt(inserter.out, n) = 1

IsBarrier(e) == e.kind = "tvm_storage_sync"

\* the outermost region entry n of list stands in or after
RegionAt(list, n) == Cardinality({k \in OutermostRegions(list) : k <= n})

\* the block count and the leader predicate of the thread axes in force
BlockCount(attrs) ==
    LET blocks == SelectSeq(attrs, LAMBDA iv : iv.rank = 0)
    IN  [k \in 1..Len(blocks) |-> blocks[Len(blocks) + 1 - k].value]
LeaderPredicate(attrs) ==
    LET threads == SelectSeq(attrs, LAMBDA iv : iv.rank = 1)
    IN  [k \in 1..Len(threads) |-> threads[k].var]

\* C35: all global barriers of one outermost thread_extent region carry the
\* same block count and the same leader predicate, those of the thread axes
\* in force at the first barrier of the region; any number of barriers at one
\* thread_extent depth is emitted without error, a barrier at another depth
\* fails a CHECK, and outside the regions num_blocks_ and is_lead_ are
\* undefined.
C35_OneBlockCountAndLeaderPerRegion ==
    LET out == inserter.out
        barriers == {n \in 1..Len(out) : IsBarrier(out[n]) /\ DepthAt(out, n) > 0}
        depth == Len(inserter.thread_extents_)
    IN  /\ inserter.sync_scope_ = "global" =>
               \A a \in barriers, b \in barriers :
                   RegionAt(out, a) = RegionAt(out, b) =>
                       /\ out[a].args = out[b].args
                       /\ DepthAt(out, a) = DepthAt(out, b)
        /\ (/\ inserter.sync_scope_ = "global"
            /\ Len(out) \in barriers
            /\ \A b \in barriers : b # Len(out) =>
                   RegionAt(out, b) # RegionAt(out, Len(out))) =>
               out[Len(out)].args = <<"global",
                                      LeaderPredicate(inserter.thread_extents_),
                                      BlockCount(inserter.thread_extents_)>>
        /\ inserter.failed # 0 =>
               \E b \in barriers :
                   /\ b > inserter.open[1]
                   /\ DepthAt(out, b) # depth
        /\ inserter.open = <<>> =>
               /\ inserter.num_blocks_ = Undefined
               /\ inserter.is_lead_ = Undefined

C7_UnconvertibleFactDropped ==
    (zcall.op \in {"AddConstraint", "AddForallConstraint"} /\ ~Converts(zcall.arg)) =>
        /\ ~zcall.raised
        /\ general_constraints = zpre.gc
        /\ var_constraints = zpre.vc

NewBounds(c) ==
    <<GENode(VarNode(c.var), c.min), LTNode(VarNode(c.var), AddNode(c.min, c.extent))>>

\* what C8 says the variable's facts are after Update / Bind
FactsAfterUpdate(c) ==
    (IF c.overwrite THEN <<>> ELSE zpre.vc[c.var]) \o NewBounds(c)

\* C8 as stated: Update without overwrite appends the two bounds to the
\* variable's facts, with overwrite only the two new bounds remain, Bind is
\* Update without overwrite, other variables keep their facts.
C8_UpdateAccumulatesOrReplaces ==
    zcall.op \in {"Update", "Bind"} =>
        /\ var_constraints[zcall.var] = FactsAfterUpdate(zcall)
        /\ \A v \in Z3VarNames \ {zcall.var} : var_constraints[v] = zpre.vc[v]

\* C8 amended: the above when both bounds of the range convert; otherwise the
\* call changes no fact at all.  Every fact recorded is in force for CanProve.
C8_UpdateWhenConvertible ==
    /\ zcall.op \in {"Update", "Bind"} =>
          /\ ~zcall.raised
          /\ general_constraints = zpre.gc
          /\ \A v \in Z3VarNames \ {zcall.var} : var_constraints[v] = zpre.vc[v]
          /\ var_constraints[zcall.var] =
                IF Converts(zcall.min) /\ Converts(zcall.extent)
                THEN FactsAfterUpdate(zcall)
                ELSE zpre.vc[zcall.var]
          /\ zcall.op = "Bind" => ~zcall.overwrite
    /\ (zcall.op = "CanProve" /\ zcall.solver = "decides" /\ Converts(zcall.arg)) =>
          (zcall.result <=>
              \A env \in [Z3VarNames -> Z3Dom] :
                  (/\ \A v \in Z3VarNames : \A n \in 1..Len(var_constraints[v]) :
                         Z3Eval(var_constraints[v][n], env)
                   /\ \A n \in 1..Len(general_constraints) :
                         Z3Eval(general_constraints[n], env))
                  => Z3Eval(zcall.arg, env))

\* an Update without overwrite on a variable that already had two facts
C8_Witness ==
    /\ zcall.op = "Update"
    /\ ~zcall.overwrite
    /\ Len(zpre.vc[zcall.var]) = 2
    /\ Len(var_constraints[zcall.var]) = 4

\* C38: AddConstraint given an integer constant c adds the boolean fact
\* (c != 0) to general_constraints, true for a non-zero constant and false
\* for the constant 0; with the fact false in force CanProve returns true
\* for every cond that converts.
C38_IntegerConstantRecordedAsTruthValue ==
    /\ (zcall.op = "AddConstraint" /\ zcall.arg.kind = "IntImm") =>
           /\ ~zcall.raised
           /\ var_constraints = zpre.vc
           /\ general_constraints =
                  Append(zpre.gc, BoolVal(zcall.arg.value # 0))
    /\ (/\ zcall.op = "CanProve"
        /\ zcall.solver = "decides"
        /\ Converts(zcall.arg)
        /\ \E n \in 1..Len(general_constraints) :
               general_constraints[n] = BoolVal(FALSE)) => zcall.result

(***************************************************************************)
(* Properties of the layout rewriter                                       *)
(***************************************************************************)
LayoutDone(op) == lcall.op = op /\ ~lcall.failed

\* C9: split replaces the leaf dimension at dim_idx by <name>.outer and
\* <name>.inner, in that order and at that position, keeps every other leaf
\* dimension in place, and appends one split relation (parent, outer, inner,
\* factor).
C9_SplitReplacesLeafByOuterInner ==
    LayoutDone("split") =>
        LET pre == lcall.leaf
            i == lcall.a1 + 1
        IN  /\ Len(leaf_dimensions) = Len(pre) + 1
            /\ leaf_dimensions[i].name = pre[i].name \o <<"outer">>
            /\ leaf_dimensions[i + 1].name = pre[i].name \o <<"inner">>
            /\ leaf_dimensions[i].type = pre[i].type
            /\ leaf_dimensions[i + 1].type = pre[i].type
            /\ \A n \in 1..Len(pre) : leaf_dimensions[i].id # pre[n].id
                                      /\ leaf_dimensions[i + 1].id # pre[n].id
            /\ \A n \in 1..(i - 1) : leaf_dimensions[n] = pre[n]
            /\ \A n \in (i + 1)..Len(pre) : leaf_dimensions[n + 1] = pre[n]
            /\ relations = Append(lcall.rels,
                                  SplitRel(pre[i], leaf_dimensions[i],
                                           leaf_dimensions[i + 1], lcall.a2))

\* [d0, d1] split at 0 with factor 4 is [d0.outer, d0.inner, d1]
C9_Witness ==
    /\ LayoutDone("split")
    /\ lcall.leaf = <<DimD0, DimD1>>
    /\ lcall.a1 = 0
    /\ lcall.a2 = 4
    /\ [n \in 1..Len(leaf_dimensions) |-> leaf_dimensions[n].name]
          = << <<"d0", "outer">>, <<"d0", "inner">>, <<"d1">> >>
    /\ relations[Len(relations)].factor = 4

LayoutFailed(op) == lcall.op = op /\ lcall.failed

\* what C12 calls a malformed request, on the leaf list as it was before
MalformedRequest ==
    LET n == Len(lcall.leaf)
    IN  \/ lcall.op \in {"split", "fuse", "reorder"} /\ lcall.a1 >= n
        \/ /\ lcall.op \in {"fuse", "reorder"}
           /\ \/ lcall.a2 >= n
              \/ lcall.a2 = 0
              \/ lcall.a1 # lcall.a2 - 1

\* C12: split, fuse and reorder with an index that is not below the leaf
\* count, or fuse and reorder with indices that are not dim_idx1 =
\* dim_idx2 - 1, fail, and the leaf list and the relation history are then
\* what they were before the call.
C12_MalformedRequestsRejected ==
    /\ MalformedRequest => lcall.failed
    /\ (lcall.op \in {"split", "fuse", "reorder"} /\ lcall.failed) =>
           /\ leaf_dimensions = lcall.leaf
           /\ relations = lcall.rels

\* a fuse or reorder of a dimension with itself, or with dim_idx2 = 0, on a
\* stage that has relations already, and an out-of-range split
C12_Witness ==
    \/ /\ lcall.op \in {"fuse", "reorder"}
       /\ lcall.failed
       /\ lcall.a1 < Len(lcall.leaf)
       /\ lcall.a2 < Len(lcall.leaf)
       /\ lcall.a1 >= lcall.a2
       /\ lcall.rels # <<>>
       /\ relations = lcall.rels
    \/ /\ LayoutFailed("split")
       /\ lcall.a1 = Len(lcall.leaf)
       /\ leaf_dimensions = lcall.leaf

RelationKindOf(op) ==
    IF op = "densify" THEN "change" ELSE op

\* C10: after each successful split, fuse, reorder or densify the relation
\* list is exactly one node longer, the new node being of the matching kind.
C10_EveryRewriteRecordsRelation ==
    (lcall.op # "none" /\ ~lcall.failed) =>
        /\ Len(relations) = Len(lcall.rels) + 1
        /\ SubSeq(relations, 1, Len(lcall.rels)) = lcall.rels
        /\ relations[Len(relations)].kind = RelationKindOf(lcall.op)

\* C32: fuse_tensor_dimensions(tensor, i, i + 1) removes the leaf dimensions
\* at positions i and i + 1 and puts one new fused dimension at position i;
\* every other leaf dimension stays, in the same relative order, so the list
\* is one shorter.  The fused dimension is kFunDim if either fused dimension
\* is kFunDim and kRangeDim otherwise, and one fuse relation (outer, inner,
\* fused) is appended to the relations.
C32_FuseReplacesPairByFused ==
    LayoutDone("fuse") =>
        LET pre == lcall.leaf
            i == lcall.a1 + 1
            fused == leaf_dimensions[i]
        IN  /\ lcall.a2 = lcall.a1 + 1
            /\ Len(leaf_dimensions) = Len(pre) - 1
            /\ \A n \in 1..Len(pre) : fused.id # pre[n].id
            /\ fused.type = IF "kFunDim" \in {pre[i].type, pre[i + 1].type}
                            THEN "kFunDim" ELSE "kRangeDim"
            /\ \A n \in 1..(i - 1) : leaf_dimensions[n] = pre[n]
            /\ \A n \in (i + 2)..Len(pre) : leaf_dimensions[n - 1] = pre[n]
            /\ relations = Append(lcall.rels,
                                  FuseRel(pre[i], pre[i + 1], fused))

\* [d0.outer, d0.inner, f] fused at 1 and 2 is [d0.outer, fused], the fused
\* dimension functional; and [d0, d1.outer, d1.inner] fused at 0 and 1 keeps
\* d1.inner behind a fused range dimension
C32_Witness ==
    /\ LayoutDone("fuse")
    /\ Len(lcall.leaf) = 3
    /\ \/ /\ lcall.a1 = 1
          /\ lcall.leaf[3] = DimF
          /\ leaf_dimensions[1] = lcall.leaf[1]
          /\ leaf_dimensions[2].type = "kFunDim"
       \/ /\ lcall.a1 = 0
          /\ lcall.leaf[1] = DimD0
          /\ leaf_dimensions[1].type = "kRangeDim"
          /\ leaf_dimensions[2] = lcall.leaf[3]

\* C33: reorder_tensor_dimensions(tensor, i, i + 1) exchanges the leaf
\* dimensions at positions i and i + 1 and leaves every other position of
\* the leaf list alone (same length, same dimensions); the same reorder
\* applied to the result gives the leaf list back as it was.
C33_ReorderSwapsAndIsInvolution ==
    LayoutDone("reorder") =>
        LET pre == lcall.leaf
            i == lcall.a1 + 1
            again == ReorderResult(leaf_dimensions, relations, next_dim,
                                   lcall.a1, lcall.a2)
        IN  /\ lcall.a2 = lcall.a1 + 1
            /\ Len(leaf_dimensions) = Len(pre)
            /\ leaf_dimensions[i] = pre[i + 1]
            /\ leaf_dimensions[i + 1] = pre[i]
            /\ \A n \in 1..Len(pre) :
                   n \notin {i, i + 1} => leaf_dimensions[n] = pre[n]
            /\ {leaf_dimensions[n] : n \in 1..Len(pre)}
                   = {pre[n] : n \in 1..Len(pre)}
            /\ AdjacentChecks(op_kind, leaf_dimensions, lcall.a1, lcall.a2)
            /\ again.leaf = pre

\* the last two of three leaf dimensions exchanged, the first one in place
C33_Witness ==
    /\ LayoutDone("reorder")
    /\ Len(lcall.leaf) = 3
    /\ lcall.a1 = 1
    /\ leaf_dimensions[1] = lcall.leaf[1]
    /\ leaf_dimensions[2] = lcall.leaf[3]
    /\ leaf_dimensions[3] = lcall.leaf[2]
    /\ leaf_dimensions[2] # leaf_dimensions[3]

(***************************************************************************)
(* Properties of the loop-nest builder                                     *)
(***************************************************************************)
\* position (from 0) of a leaf variable in stage->leaf_iter_vars
LeafPos(v) == (CHOOSE n \in DOMAIN leaf_iter_vars : leaf_iter_vars[n].var = v) - 1

\* the places <<level, index>> of the nest that hold a Let of variable v
LetsOf(v) ==
    UNION { { <<l, k>> : k \in {n \in DOMAIN nest[l + 1] :
                                    /\ nest[l + 1][n].node = "LetStmt"
                                    /\ nest[l + 1][n].var = NestVar(v, "")} } :
            l \in 0..(Len(nest) - 1) }

DerivedDims == {all_dimensions[n] : n \in {m \in DOMAIN all_dimensions :
                                               IsDerived(all_dimensions[m])}}

\* C2: when the builder has run, every derived dimension has exactly one Let
\* of its variable in the nest, at a level that comes after the level of
\* every leaf variable it depends on.
C2_DerivedBoundOnceAfterDeps ==
    npc = "done" =>
        \A di \in DerivedDims :
            /\ Cardinality(LetsOf(di.iv)) = 1
            /\ \A pl \in LetsOf(di.iv) :
                   \A v \in di.ufun_dimensions : pl[1] >= LeafPos(v) + 1

LeafNames == {leaf_iter_vars[n].var : n \in DOMAIN leaf_iter_vars}

\* the leaf variable at position pos (from 0)
LeafAt(pos) == leaf_iter_vars[pos + 1]

\* the statements of level l (from 0)
Level(l) == nest[l + 1]

IsSkipped(iv) ==
    iv.var \in skip_iter \/ iv.iter_type \in {"kOpaque", "kLoopNestOpaque", "kSplit"}

\* C16: when the builder has run from begin_iter_pos, the value map holds
\* leaf variables only, it holds every leaf variable at a position from
\* begin_iter_pos on (skipped and thread-bound ones too), the entries of the
\* variables before begin_iter_pos are as the caller supplied them, the
\* nest has one level more than there are leaf variables, levels 0 to
\* begin_iter_pos are empty, every statement on a leaf variable is in the
\* level after the variable's position, every thread_extent attribute is in
\* the level after the position of the variable bound to that thread, and
\* every leaf variable that is not skipped has a statement in its level.
C16_ValueMapAndLevels ==
    npc = "done" =>
        /\ DOMAIN value_map \subseteq LeafNames
        /\ \A pos \in 0..(Len(leaf_iter_vars) - 1) :
               LET v == LeafAt(pos).var
               IN  IF pos >= begin_iter_pos THEN v \in DOMAIN value_map
                   ELSE IF v \in DOMAIN value_map_in
                   THEN v \in DOMAIN value_map /\ value_map[v] = value_map_in[v]
                   ELSE v \notin DOMAIN value_map
        /\ Len(nest) = Len(leaf_iter_vars) + 1
        /\ \A l \in 0..begin_iter_pos : Level(l) = <<>>
        /\ \A l \in 1..Len(leaf_iter_vars) :
               /\ \A k \in DOMAIN Level(l) :
                      LET stmt == Level(l)[k]
                      IN  /\ stmt.var.name \in LeafNames => LeafPos(stmt.var.name) = l - 1
                          /\ stmt.key = "thread_extent" =>
                                 LeafAt(l - 1).thread_tag = stmt.var.name
               /\ (l - 1 >= begin_iter_pos /\ ~IsSkipped(LeafAt(l - 1))) =>
                      Level(l) # <<>>

\* a run from position 1 on a caller's value map, the variable at position
\* 1 bound to a thread or skipped
C16_Witness ==
    /\ npc = "done"
    /\ begin_iter_pos = 1
    /\ value_map_in # <<>>
    /\ LeafAt(0).var \in DOMAIN value_map
    /\ LeafAt(1).var \in DOMAIN value_map
    /\ LeafAt(1).thread_tag # "" \/ IsSkipped(LeafAt(1))
    /\ Level(1) = <<>>

\* the For and Let statements of level pos + 1 on the leaf variable at pos
LoopStmts(pos) ==
    SelectSeq(Level(pos + 1),
              LAMBDA stmt : /\ stmt.var.name = LeafAt(pos).var
                            /\ stmt.node \in {"For", "LetStmt"})

\* the leaf variables the builder made a loop or a binding for
Unbound(pos) ==
    /\ pos >= begin_iter_pos
    /\ ~IsSkipped(LeafAt(pos))
    /\ LeafAt(pos).thread_tag = ""

ExtentIsOne(iv) == iv.extent = 1 /\ iv.extent_vars = {}

Elided(pos) == ~debug_keep_trivial_loop /\ ExtentIsOne(LeafAt(pos))

\* C17: when the builder has run, an unbound leaf variable that was not
\* skipped has, in this priority: (1) with an extent of one and elision on,
\* a Let of the variable to min and nothing else, and min in the value map;
\* (2) else with min zero, one For over the variable from 0 to the extent
\* and nothing else, and the variable in the value map; (3) else one For
\* over the auxiliary index from 0 to the extent, then a Let of the variable
\* to min + index, and min + index in the value map.
C17_UnboundLoopOutcomes ==
    npc = "done" =>
        \A pos \in 0..(Len(leaf_iter_vars) - 1) :
            Unbound(pos) =>
                LET iv == LeafAt(pos)
                    var == NestVar(iv.var, IF new_loop_var THEN "init" ELSE "")
                    idx == NestVar(iv.var, "idx")
                    extent == Extent(iv.extent, iv.extent_vars)
                    for_type == ForTypeOf(iv.iter_type)
                IN  IF Elided(pos)
                    THEN /\ LoopStmts(pos) = <<LetStmtNode(var, ConstExpr(iv.min))>>
                         /\ value_map[iv.var] = ConstExpr(iv.min)
                    ELSE IF iv.min = 0
                    THEN /\ LoopStmts(pos) = <<ForNode(var, extent, for_type)>>
                         /\ value_map[iv.var] = VarExpr(var)
                    ELSE /\ LoopStmts(pos) =
                                <<ForNode(idx, extent, for_type),
                                  LetStmtNode(var, AddExpr(iv.min, idx))>>
                         /\ value_map[iv.var] = AddExpr(iv.min, idx)

\* one variable elided and one that starts above zero, in one nest
C17_Witness ==
    /\ npc = "done"
    /\ \E pos \in 0..(Len(leaf_iter_vars) - 1) :
           Unbound(pos) /\ Elided(pos) /\ Len(LoopStmts(pos)) = 1
    /\ \E pos \in 0..(Len(leaf_iter_vars) - 1) :
           Unbound(pos) /\ ~Elided(pos) /\ LeafAt(pos).min # 0
               /\ Len(LoopStmts(pos)) = 2

\* the maps IndexLoopVarDeps builds from the caller's value map when the
\* state maps yield their keys in the orders o
MapsFor(o) == IndexLoopVarDepsMaps(leaf_iter_vars, all_dimensions, value_map_in, o)

\* the nest and value map the builder then makes
NestFor(o) ==
    LET maps == MapsFor(o)
    IN  LoopNestFromDependentVars(
            leaf_iter_vars, begin_iter_pos, new_loop_var, skip_iter, value_map_in,
            debug_keep_trivial_loop,
            [index_vars_loop_vars_depend_on |-> maps.index_vars_loop_vars_depend_on,
             index_vars_loop_vars_are_needed_for |->
                 maps.index_vars_loop_vars_are_needed_for,
             index_vars_dep_count |-> maps.index_vars_dep_count])

RanTwice == npc = "done" /\ first_run # NoRun

\* a For of level pos + 1 of a nest on the leaf variable at pos
HasFor(n, pos) ==
    \E k \in DOMAIN n[pos + 2] :
        /\ n[pos + 2][k].node = "For"
        /\ n[pos + 2][k].var.name = LeafAt(pos).var

\* mapped to its minimum by both runs, no For in either
ElidedInBothRuns(pos) ==
    LET iv == LeafAt(pos)
    IN  /\ value_map[iv.var] = ConstExpr(iv.min)
        /\ first_run.value_map[iv.var] = ConstExpr(iv.min)
        /\ ~HasFor(nest, pos)
        /\ ~HasFor(first_run.nest, pos)

C26_NoLoopBoundRefersToLaterBinding ==
    npc = "done" =>
        \A l \in 1..Len(leaf_iter_vars) :
            \A k \in DOMAIN Level(l) :
                \A w \in Level(l)[k].extent.vars :
                    \A pl \in LetsOf(w) : pl[1] < l

\* the leaf variables under which dimension di is recorded in the
\* unblocked-by map
RecordedUnder(di) ==
    {v \in DOMAIN index_vars_loop_vars_are_needed_for :
        \E n \in DOMAIN index_vars_loop_vars_are_needed_for[v] :
            index_vars_loop_vars_are_needed_for[v][n] = di}

\* how often dimension di stands in the list of leaf variable v
TimesRecorded(di, v) ==
    Cardinality({n \in DOMAIN index_vars_loop_vars_are_needed_for[v] :
                    index_vars_loop_vars_are_needed_for[v][n] = di})

\* C27: when the dependency indexer has run, the counter of each derived
\* dimension is the number of leaf variables under which the dimension is
\* recorded (once each), which is the number of leaf variables its function
\* depends on that are not in the incoming value map; no counter is negative.
C27_CounterMatchesRecordedDependencies ==
    npc = "indexed" =>
        /\ DOMAIN index_vars_dep_count = {di.iv : di \in DerivedDims}
        /\ \A di \in DerivedDims :
              /\ index_vars_dep_count[di.iv] = Cardinality(RecordedUnder(di))
              /\ \A v \in RecordedUnder(di) : TimesRecorded(di, v) = 1
              /\ RecordedUnder(di) =
                     (di.ufun_dimensions \cap LeafNames) \ DOMAIN value_map_in
              /\ index_vars_dep_count[di.iv] >= 0

\* a dimension that depends on both leaf variables, one of which the caller
\* has generated already
C27_Witness ==
    /\ npc = "indexed"
    /\ value_map_in # <<>>
    /\ \E di \in DerivedDims :
          /\ di.ufun_dimensions = LeafVarNames
          /\ Cardinality(di.ufun_dimensions \cap DOMAIN value_map_in) = 1
          /\ index_vars_dep_count[di.iv] = 1

\* C28: a derived dimension whose variable is in the incoming value map is
\* recorded under no leaf variable by the dependency indexer, and the
\* builder emits no binding for it.
C28_GivenDerivedDimensionExcluded ==
    npc \in {"indexed", "done"} =>
        \A di \in DerivedDims :
            di.iv \in DOMAIN value_map_in =>
                /\ RecordedUnder(di) = {}
                /\ npc = "done" => LetsOf(di.iv) = {}

\* the leaf variables dimension di is recorded under that the builder
\* generates: at a position from begin_iter_pos on and not skipped
GeneratedDeps(di) ==
    {v \in RecordedUnder(di) :
        LeafPos(v) >= begin_iter_pos /\ ~IsSkipped(LeafAt(LeafPos(v)))}

\* C29: when the builder has run, every cascade has come to its end with
\* each visit of a waiting dimension either lowering a counter above one or
\* emitting the dimension's binding: a dimension all of whose recorded
\* variables were generated has one binding and a counter of one, any other
\* dimension has no binding and a counter lowered by the number of its
\* generated variables; no counter is below zero and the nest holds at most
\* as many bindings of derived variables as there are derived dimensions.
C29_CascadeCountsDownAndBindsOnce ==
    npc = "done" =>
        /\ \A di \in DerivedDims :
              LET recorded == Cardinality(RecordedUnder(di))
                  generated == Cardinality(GeneratedDeps(di))
              IN  /\ index_vars_dep_count[di.iv] >= 0
                  /\ IF recorded >= 1 /\ generated = recorded
                     THEN /\ Cardinality(LetsOf(di.iv)) = 1
                          /\ index_vars_dep_count[di.iv] = 1
                     ELSE /\ LetsOf(di.iv) = {}
                          /\ index_vars_dep_count[di.iv] = recorded - generated
        /\ Cardinality(UNION {LetsOf(v) : v \in DerivedVarNames})
               <= Cardinality(DerivedDims)

\* both derived dimensions wait for both leaf variables, the first cascade
\* lowers both counters and the second emits both bindings
C29_Witness ==
    /\ npc = "done"
    /\ \A di \in DerivedDims :
          /\ RecordedUnder(di) = LeafVarNames
          /\ Cardinality(LetsOf(di.iv)) = 1
          /\ index_vars_dep_count[di.iv] = 1
    /\ Cardinality(DerivedDims) = 2

\* the leaf variables that take the skip transition
SkippedAt(pos) == pos >= begin_iter_pos /\ IsSkipped(LeafAt(pos))

\* C30: when the builder has run, a leaf variable in the skip set or of an
\* opaque or split type is mapped to itself in the value map, its nest level
\* is empty, every dimension recorded under it has no binding and keeps a
\* counter that the skipped variable did not lower, and the leaf variables
\* after it are processed.
C30_SkipTransition ==
    npc = "done" =>
        \A pos \in 0..(Len(leaf_iter_vars) - 1) :
            SkippedAt(pos) =>
                LET v == LeafAt(pos).var
                IN  /\ value_map[v] = VarExpr(NestVar(v, ""))
                    /\ Level(pos + 1) = <<>>
                    /\ \A di \in DerivedDims :
                          v \in RecordedUnder(di) =>
                              /\ LetsOf(di.iv) = {}
                              /\ index_vars_dep_count[di.iv] =
                                     Cardinality(RecordedUnder(di))
                                         - Cardinality(GeneratedDeps(di))
                              /\ index_vars_dep_count[di.iv] >= 1
                    /\ \A later \in (pos + 1)..(Len(leaf_iter_vars) - 1) :
                          /\ LeafAt(later).var \in DOMAIN value_map
                          /\ ~IsSkipped(LeafAt(later)) => Level(later + 1) # <<>>

\* the first leaf variable is in the skip set, a dimension waits for it
\* alone, and the second leaf variable gets its loop
C30_Witness ==
    /\ npc = "done"
    /\ begin_iter_pos = 0
    /\ LeafAt(0).var \in skip_iter
    /\ LeafAt(0).iter_type = "kDataPar"
    /\ ~IsSkipped(LeafAt(1))
    /\ Level(1) = <<>>
    /\ Level(2) # <<>>
    /\ \E di \in DerivedDims :
          /\ RecordedUnder(di) = {LeafAt(0).var}
          /\ index_vars_dep_count[di.iv] = 1
          /\ LetsOf(di.iv) = {}

ThreadBound(pos) ==
    /\ pos >= begin_iter_pos
    /\ ~IsSkipped(LeafAt(pos))
    /\ LeafAt(pos).thread_tag # ""

ExtentKeys == {"virtual_thread", "pipeline_exec_scope", "thread_extent"}

\* the extent attribute the builder is to emit for a thread-bound variable
ExtentAttrOf(iv) ==
    AttrStmtNode(NestVar(iv.thread_tag, ""),
                 CASE iv.thread_tag \in {"vthread", "cthread"} -> "virtual_thread"
                   [] iv.thread_tag = "pipeline" -> "pipeline_exec_scope"
                   [] OTHER -> "thread_extent",
                 Extent(iv.extent, iv.extent_vars))

\* a range the builder refuses for a thread-bound variable
RefusedRange(iv) ==
    \/ iv.min # 0
    \/ iv.thread_tag \in {"vthread", "cthread"}
          /\ ~(iv.extent > 0 /\ iv.extent_vars = {})
    \/ iv.thread_tag = "pipeline" /\ ~ExtentIsOne(iv)

\* C31: when the builder has run, the level of a thread-bound leaf variable
\* holds no For and exactly one extent attribute, on the thread variable and
\* with the range's extent; the value map holds the thread variable for a
\* virtual or cooperative thread, the minimum for a pipeline marker, and for
\* a hardware thread the minimum if the extent is one and elision is on,
\* else the thread variable.  The run fails exactly when a thread-bound
\* variable it comes to has a refused range.
C31_ThreadBoundOutcomes ==
    /\ npc = "done" =>
          \A pos \in 0..(Len(leaf_iter_vars) - 1) :
              ThreadBound(pos) =>
                  LET iv == LeafAt(pos)
                      var == VarExpr(NestVar(iv.thread_tag, ""))
                  IN  /\ ~RefusedRange(iv)
                      /\ \A k \in DOMAIN Level(pos + 1) :
                             Level(pos + 1)[k].node # "For"
                      /\ SelectSeq(Level(pos + 1),
                                   LAMBDA stmt : stmt.key \in ExtentKeys)
                             = <<ExtentAttrOf(iv)>>
                      /\ value_map[iv.var] =
                             IF iv.thread_tag \in {"vthread", "cthread"} THEN var
                             ELSE IF iv.thread_tag = "pipeline"
                             THEN ConstExpr(iv.min)
                             ELSE IF Elided(pos) THEN ConstExpr(iv.min)
                             ELSE var
    /\ npc = "failed" =>
          \E pos \in 0..(Len(leaf_iter_vars) - 1) :
              ThreadBound(pos) /\ RefusedRange(LeafAt(pos))

\* a hardware thread of extent one mapped to its minimum next to a pipeline
\* marker or a virtual thread
C31_Witness ==
    /\ npc = "done"
    /\ begin_iter_pos = 0
    /\ ThreadBound(0)
    /\ ThreadBound(1)
    /\ \E pos \in {0, 1} :
          /\ LeafAt(pos).thread_tag = "threadIdx.x"
          /\ value_map[LeafAt(pos).var] = ConstExpr(0)
    /\ \E pos \in {0, 1} : LeafAt(pos).thread_tag \in {"pipeline", "cthread"}

RECURSIVE FlatLevels(_, _)
\* the statements of levels l .. Len(levels) in order, each with its level
FlatLevels(levels, l) ==
    IF l > Len(levels) THEN <<>>
    ELSE [k \in 1..Len(levels[l]) |-> [level |-> l, stmt |-> levels[l][k]]]
             \o FlatLevels(levels, l + 1)

HoistOut == FlatLevels(hoisting.ret, 1)

IsPred(e) == e.stmt.node = "pred"

\* the variables that the definitions among the first n statements of the
\* output define: a Let, a For or a thread_extent attribute
DefinedWithin(n) ==
    UNION {GeneratedVars(HoistOut[k].stmt) : k \in {m \in 1..n : ~IsPred(HoistOut[m])}}

\* the leaf variables a predicate refers to
LeafVarsOf(pred) == pred.vars \cap hoisting.leaf_vars

\* where predicate object id stands in the output
PlacesOf(id) ==
    {n \in 1..Len(HoistOut) : IsPred(HoistOut[n]) /\ HoistOut[n].stmt.id = id}

\* C39: the output of MergeWhileHoisting has, level by level, the
\* definitions of the input in their order; each predicate stands in it at
\* most once, after the definitions of all leaf variables it refers to and
\* at the level of, and with nothing but predicates after, the definition
\* that completed them (at the head of the first level when it needs none);
\* a predicate whose leaf variables are all defined in the input stands in
\* it exactly once.
C39_PredicatesHoistedToEarliestLevel ==
    hoisting.hpc = "done" =>
        /\ ~hoisting.failed
        /\ Len(hoisting.ret) = Len(hoisting.defs)
        /\ \A l \in 1..Len(hoisting.defs) :
               SelectSeq(hoisting.ret[l], LAMBDA e : e.node # "pred")
                   = hoisting.defs[l]
        /\ \A n \in 1..Len(HoistOut) :
               IsPred(HoistOut[n]) =>
                   LET needed == LeafVarsOf(HoistOut[n].stmt)
                       defs_before == {k \in 1..(n - 1) : ~IsPred(HoistOut[k])}
                       last == CHOOSE k \in defs_before :
                                   \A m \in defs_before : m <= k
                   IN  /\ needed \subseteq DefinedWithin(n - 1)
                       /\ \E k \in 1..Len(hoisting.preds) :
                              hoisting.preds[k] = HoistOut[n].stmt
                       /\ IF defs_before = {}
                          THEN HoistOut[n].level = 1
                          ELSE /\ HoistOut[n].level = HoistOut[last].level
                               /\ ~(needed \subseteq DefinedWithin(last - 1))
        /\ \A k \in 1..Len(hoisting.preds) :
               LET places == PlacesOf(hoisting.preds[k].id)
               IN  /\ Cardinality(places) <= 1
                   /\ LeafVarsOf(hoisting.preds[k])
                          \subseteq DefinedWithin(Len(HoistOut))
                      => Cardinality(places) = 1

\* a predicate on i and j placed right after the definition of j at the
\* third level, one that needs no leaf variable at the head of the first
\* level
C39_Witness ==
    /\ hoisting.hpc = "done"
    /\ Len(hoisting.defs) = 3
    /\ hoisting.defs[1] # <<>>
    /\ hoisting.preds = <<Pred(1, {HoistI, HoistJ}), Pred(2, {HoistP, HoistN})>>
    /\ hoisting.ret[1][1] = Pred(2, {HoistP, HoistN})
    /\ Len(hoisting.ret[3]) = 3
    /\ hoisting.ret[3][2].node = "For"
    /\ hoisting.ret[3][3] = Pred(1, {HoistI, HoistJ})

(***************************************************************************)
(* Properties of the freeze of tensor dimensions                           *)
(***************************************************************************)
HeldOp(st) == sch.ops[sch.stage_op[st]]

\* C13: when the readers of the tensor handed to
\* ReplaceIndexTensorByDenseTensor access it through more than one pattern,
\* the call is the last one made: the freeze has failed at the check of line
\* 88 with a diagnostic that names the tensor, every reader is still held by
\* its stage and no stage holds an operation that reads the new tensor.
C13_SeveralPatternsRejected ==
    \A n \in DOMAIN sch.replace_calls :
        LET call == sch.replace_calls[n]
        IN  Cardinality(call.patterns) > 1 =>
                /\ n = Len(sch.replace_calls)
                /\ fpc = "failed"
                /\ sch.failed
                /\ sch.diagnostic = [line |-> 88, tensor |-> call.old_tensor]
                /\ \A k \in DOMAIN call.readers :
                       \E st \in Stages(sch) : sch.stage_op[st] = call.readers[k]
                /\ \A st \in Stages(sch) :
                       call.new_tensor \notin InputTensors(HeldOp(st))

\* two readers, each with its own pattern, or one reader with two
C13_Witness ==
    /\ fpc = "failed"
    /\ sch.replace_calls # <<>>
    /\ LET call == sch.replace_calls[Len(sch.replace_calls)]
       IN  /\ Cardinality(call.patterns) = 2
           /\ sch.diagnostic.tensor = call.old_tensor
           /\ sch.stage_op[call.old_tensor] = call.new_tensor

\* C14: every read of op2stage_cache_ sees a cache that was built from the
\* operations the stages hold at the time of the read.
C14_CacheReadsSeeCurrentStages ==
    \A n \in DOMAIN sch.cache_reads : sch.cache_reads[n].current

\* C15: a rebuilt scan or conditional has the kind, tag, attrs and explicit
\* dimensions of the operation it replaces, and that operation's name
\* followed by ".d".
C15_RebuiltKeepsMetadataAndSuffixesName ==
    \A n \in DOMAIN sch.rebuilt :
        LET old == sch.ops[sch.rebuilt[n].old]
            new == sch.ops[sch.rebuilt[n].new]
        IN  /\ new.kind = old.kind
            /\ new.tag = old.tag
            /\ new.attrs = old.attrs
            /\ new.explicit_dims = old.explicit_dims
            /\ new.name = Append(old.name, ".d")

\* the rebuilt operation has taken the place of the old one in its stage
C15_Witness ==
    /\ fpc = "done"
    /\ \E n \in DOMAIN sch.rebuilt :
           /\ sch.ops[sch.rebuilt[n].old].kind \in {"ScanOp", "ConditionalOp"}
           /\ \E st \in Stages(sch) : sch.stage_op[st] = sch.rebuilt[n].new

\* C15 as stated: the rebuilt operation has the name, tag, attrs and
\* explicit dimensions of the operation it replaces.
C15_RebuiltKeepsNameTagAttrsDims ==
    \A n \in DOMAIN sch.rebuilt :
        LET old == sch.ops[sch.rebuilt[n].old]
            new == sch.ops[sch.rebuilt[n].new]
        IN  /\ new.name = old.name
            /\ new.tag = old.tag
            /\ new.attrs = old.attrs
            /\ new.explicit_dims = old.explicit_dims

\* the patterns through which the operations held by the stages read tensor t
PatternsOf(t) == CollectedPatterns(sch, t, FeedGraphAt(sch, t))

\* the checks on the readers and the patterns of a densified tensor
ReaderChecks == {82, 88, 206}

\* C37: a densified tensor that is read through at most one access pattern,
\* one that has no reader at all included, is replaced without error: the
\* freeze fails a check on the readers or the patterns of a tensor only when
\* the tensor is read through two or more patterns.
C37_AtMostOnePatternDensified ==
    (fpc = "failed" /\ sch.diagnostic.line \in ReaderChecks) =>
        Cardinality(PatternsOf(sch.diagnostic.tensor)) >= 2

====
